---------------------------- MODULE Spec2Model ----------------------------
(***************************************************************************)
(* pdfrankenstein: the annotation session (src/session/session.go).        *)
(*                                                                         *)
(* The state is the Session object (path, pageCount, tmpDir, annotated),   *)
(* the files it works on (the staging directory and the destination of    *)
(* Save), the clock that stamps the annotation documents, and the position *)
(* of the one caller inside the operation it is running.  Every operation  *)
(* is cut into one action per file-system call, external tool run or       *)
(* critical section, so the states between two such steps -- the ones a    *)
(* concurrent IsAnnotated / HasAnnotations caller can see -- are states of *)
(* the model.                                                              *)
(*                                                                         *)
(* Spec is an open session under every sequence of Thumbnail, Annotate,    *)
(* Clear, IsAnnotated, HasAnnotations and Save.  SpecLife starts before    *)
(* New and adds New, Close and a program that changes the user's file.     *)
(* SpecMu runs Annotate and Clear beside a second goroutine that calls     *)
(* IsAnnotated and HasAnnotations.  SpecSave runs one Save beside a second *)
(* goroutine that calls Annotate and Clear.  SpecLoad is the desktop front *)
(* end's thumbnail loader (src/unnamed/part_002) beside closeFile;         *)
(* SpecReopen adds a document opened after the close; SpecGtk is the front *)
(* end on a one-page document: the loader, annotate, clearAnnotation, save *)
(* and closeFile.  SpecIO is Thumbnail, Annotate and Clear with a rename   *)
(* that can fail; SpecStrip is the strip of Save on the document's text.   *)
(***************************************************************************)
EXTENDS Integers, Sequences, FiniteSets, TLC

\* Largest page count of an opened document.
MaxPages == 2
\* Last clock tick at which an annotation document can be stamped.
MaxTime == 1

VARIABLES
    fs,          \* path |-> [data, mtime] for every existing file
    now,         \* the clock that stamps annotation documents
    path,        \* Session.path: the private copy of the input
    pageCount,   \* Session.pageCount
    tmpDir,      \* Session.tmpDir
    annotated,   \* Session.annotated (the keys of the map)
    pc,          \* where the caller is: "idle", a step label, or "panic"
    page,        \* the page argument of the running operation
    i,           \* Save: loop index
    savePages,   \* Save: the local slice `annotated`
    beforeEditStat, \* Annotate: ModTime recorded before the editor runs
    ret,         \* what the last finished operation returned
    calls,       \* external tools run by the current (or last) operation
    entry,       \* fs and annotated as they were when the operation began
    frame,       \* New, Close: their locals (out, p, tmpDir, files)
    mu,          \* Session.mu: the goroutine that holds it, if any
    bg           \* the background goroutine: where it is, what it read

vars == <<fs, now, path, pageCount, tmpDir, annotated, pc, page, i,
          savePages, beforeEditStat, ret, calls, entry, frame, mu, bg>>

session == <<path, pageCount, tmpDir>>
locals == <<page, i, savePages, beforeEditStat>>
\* What no step of Thumbnail, Annotate, Clear or Save changes: the locals of
\* New and Close, the mutex (free before and after every critical section
\* of the caller) and the background goroutine.
rest == <<frame, mu, bg>>

-----------------------------------------------------------------------------
(* Paths *)

\* The file handed to New, and the path handed to Save.
InputPath == "in.pdf"
DestPath == "out.pdf"
StagingDir == "tmp"

Join(dir, name) == IF dir = "" THEN name ELSE dir \o "/" \o name

Itoa(n) == ToString(n)

annotPath(p) == Join(tmpDir, "annot-" \o Itoa(p) \o ".svg")

srcPath(p) == Join(tmpDir, "src-" \o Itoa(p) \o ".svg")

thumbPath(p) == Join(tmpDir, "thumb-" \o Itoa(p) \o ".png")

\* Variant: the merged overlay is written to the caller's destination.
overlayPathAtDest == DestPath

overlayPath == Join(tmpDir, "overlay.pdf")

finalPath == Join(tmpDir, "final.pdf")

-----------------------------------------------------------------------------
(* Files.  Only the annotation documents carry a modification time the     *)
(* session ever reads; every other file is stamped 0.                      *)

File(d, t) == [data |-> d, mtime |-> t]

\* A directory, as an entry of its parent.
Dir == [data |-> <<[tag |-> "dir", id |-> "", href |-> ""]>>, mtime |-> 0]

Exists(F, f) == f \in DOMAIN F

WriteFile(F, f, d, t) ==
    [x \in DOMAIN F \cup {f} |-> IF x = f THEN File(d, t) ELSE F[x]]

Remove(F, f) == [x \in DOMAIN F \ {f} |-> F[x]]

\* os.Rename: fails (and changes nothing) when the old name does not exist.
Rename(F, old, new) ==
    IF old \in DOMAIN F
    THEN [x \in (DOMAIN F \ {old}) \cup {new} |->
             IF x = new THEN F[old] ELSE F[x]]
    ELSE F

\* fileCopy(src, dst): the file system after it, and its error.  The
\* destination is a path the caller can create.
fileCopy(F, src, dst) ==
    IF ~Exists(F, src)
    THEN [fs |-> F, err |-> "open " \o src \o ": no such file"]
    ELSE [fs |-> WriteFile(F, dst, F[src].data, 0), err |-> "nil"]

-----------------------------------------------------------------------------
(* Documents.  A PDF is a sequence of pages, a page and an SVG document a  *)
(* sequence of elements.                                                   *)

Elem(tag, id, href) == [tag |-> tag, id |-> id, href |-> href]

\* The input document with n pages.
InputPdf(n) == [k \in 1..n |-> <<Elem("page", Itoa(k), "")>>]

\* annotTpl: the document synthesised around the source representation.
BgElem(href) == Elem("image", "src-bg", href)

annotTpl(href) == <<BgElem(href)>>

\* What the user can draw.
Drawings == {"u1"}

\* srcBGPat: <image[^>]*id="src-bg"[^>]*>
srcBGPat(e) == e.tag = "image" /\ e.id = "src-bg"

\* srcBGPat.ReplaceAll(b, nil)
StripBG(doc) == SelectSeq(doc, LAMBDA e : ~srcBGPat(e))

-----------------------------------------------------------------------------
(* External tools.  Each run either exits with failure, leaving its output *)
(* unwritten, or writes the output named on its command line.              *)

\* An *exec.ExitError: Error() is the exit status, Stderr the tool's text.
ExitError == [msg |-> "exit status 1", stderr |-> "tool diagnostics"]

\* cmdErr: the text of the tool's standard error.
cmdErr(e) == e.stderr

\* One run of an external tool: its command line and whether it exited 0.
Cmd(tool, args, ok) == [tool |-> tool, args |-> args, ok |-> ok]

\* A page number the tool accepts for the document at f.
HasPage(F, f, n) == Exists(F, f) /\ n \in 1..Len(F[f].data)

\* pdftocairo -f n -png -singlefile ... in out: writes out.png
Rasterise(F, in, n, out) ==
    WriteFile(F, out \o ".png", <<Elem("png", F[in].data[n][1].id, "")>>, 0)

\* inkscape --pages=n --export-type=svg --export-filename=out in
ExportSVG(F, in, n, out) == WriteFile(F, out, F[in].data[n], 0)

\* inkscape --export-type=pdf --export-filename=out in: a one-page PDF
ExportPDF(F, in, out) == WriteFile(F, out, <<F[in].data>>, 0)

RECURSIVE Concat(_, _)
\* The pages of the documents at the paths ins, in that order.
Concat(F, ins) ==
    IF ins = <<>> THEN <<>> ELSE F[Head(ins)].data \o Concat(F, Tail(ins))

\* qpdf --empty --pages ins... -- out
MergePages(F, ins, out) == WriteFile(F, out, Concat(F, ins), 0)

\* qpdf base --overlay ov --to=n1,n2,... -- out: the k-th page of ov is
\* drawn over page to[k] of base, every other page of base is kept.
OverlayPages(F, base, ov, to, out) ==
    LET b == F[base].data
        o == F[ov].data
        pg(n) == IF \E k \in 1..Len(to) : to[k] = n /\ k <= Len(o)
                 THEN LET k == CHOOSE k \in 1..Len(to) : to[k] = n /\ k <= Len(o)
                      IN  b[n] \o o[k]
                 ELSE b[n]
    IN  WriteFile(F, out, [n \in 1..Len(b) |-> pg(n)], 0)

RECURSIVE JoinStr(_, _)
\* strings.Join
JoinStr(ss, sep) ==
    IF ss = <<>> THEN ""
    ELSE IF Len(ss) = 1 THEN ss[1]
    ELSE ss[1] \o sep \o JoinStr(Tail(ss), sep)

\* Variant: the page list keeps the zero-based indices.
annotedStrZeroBased(pages) == [k \in 1..Len(pages) |-> Itoa(pages[k])]

\* annotedStr[i] = strconv.Itoa(p + 1)
annotedStr(pages) == [k \in 1..Len(pages) |-> Itoa(pages[k] + 1)]

\* pageRange := strings.Join(annotedStr, ",")
pageRange(pages) == JoinStr(annotedStr(pages), ",")

\* The page numbers qpdf reads out of a --to= range of a document with n
\* pages: the list that is written as that string, <<0>> if there is none
\* (qpdf rejects the range).
ParsePageRange(str, n) ==
    LET lists == UNION {[1..k -> 1..n] : k \in 0..n}
        text(l) == JoinStr([k \in 1..Len(l) |-> Itoa(l[k])], ",")
    IN  IF \E l \in lists : text(l) = str
        THEN CHOOSE l \in lists : text(l) = str
        ELSE <<0>>

-----------------------------------------------------------------------------
(* Calls and returns *)

NoRet == [op |-> "none", page |-> -1, val |-> "", err |-> "nil"]

Snapshot == [fs |-> fs, annotated |-> annotated]

\* The pages a caller may pass: every page of the document and the two
\* nearest indices outside it; page 0 also where the document has no page
\* or the session is closed.
PageArgs == -1..(IF pageCount > 0 THEN pageCount ELSE 0)

\* Variant: the upper bound of the range check is off by one.
InvalidPageOffByOne(p) == p < 0 \/ p > pageCount

\* if page < 0 || page >= s.pageCount { panic("invalid page number") }
InvalidPage(p) == p < 0 \/ p >= pageCount

\* IsAnnotated: the critical section reads the map.
IsAnnotated(p) == p \in annotated

\* HasAnnotations: len(s.annotated) > 0
HasAnnotations == Cardinality(annotated) > 0

\* The caller enters operation op with argument p, its locals fresh; first
\* is its first step.
Enter(op, p, first) ==
    /\ pc = "idle"
    /\ page' = p
    /\ i' = 0
    /\ savePages' = <<>>
    /\ beforeEditStat' = 0
    /\ ret' = [NoRet EXCEPT !.op = op, !.page = p]
    /\ calls' = <<>>
    /\ entry' = Snapshot
    /\ pc' = first

\* The running operation returns (val, err).
Return(val, err) ==
    /\ pc' = "idle"
    /\ ret' = [ret EXCEPT !.val = val, !.err = err]

\* fmt.Errorf("<what>: %s", cause)
Errorf(what, cause) == what \o ": " \o cause

\* The locals of New and Close before either has run.
NoFrame == [out |-> <<>>, p |-> 0, dir |-> "", files |-> <<>>]

\* sync.Mutex: not held.
Free == ""

\* The background goroutine between two calls.
BgIdle == [pc |-> "idle", op |-> "none", page |-> -1, seen |-> {}, val |-> ""]

Init ==
    /\ pageCount \in 1..MaxPages
    /\ tmpDir = StagingDir
    /\ path = Join(StagingDir, "src.pdf")
    /\ fs = [f \in {InputPath, StagingDir, Join(StagingDir, "src.pdf")} |->
                IF f = StagingDir THEN Dir ELSE File(InputPdf(pageCount), 0)]
    /\ frame = NoFrame
    /\ mu = Free
    /\ bg = BgIdle
    /\ now = 0
    /\ annotated = {}
    /\ pc = "idle"
    /\ page = -1
    /\ i = 0
    /\ savePages = <<>>
    /\ beforeEditStat = 0
    /\ ret = NoRet
    /\ calls = <<>>
    /\ entry = [fs |-> fs, annotated |-> {}]

-----------------------------------------------------------------------------
(* Thumbnail *)

ThumbnailCall(p) ==
    /\ Enter("Thumbnail", p, IF InvalidPage(p) THEN "panic" ELSE "T_stat")
    /\ UNCHANGED <<fs, now, session, rest, annotated>>

\* Serve from cache if available.
ThumbnailStat ==
    /\ pc = "T_stat"
    /\ IF Exists(fs, thumbPath(page))
       THEN Return(thumbPath(page), "nil")
       ELSE pc' = "T_tool" /\ UNCHANGED ret
    /\ UNCHANGED <<fs, now, session, rest, annotated, locals, calls, entry>>

\* Variant: the tool is given the zero-based index.
ThumbnailToolZeroBased ==
    /\ pc = "T_tool"
    /\ \E ok \in BOOLEAN :
          LET done == ok /\ HasPage(fs, path, page)
          IN  /\ calls' = Append(calls, Cmd("pdftocairo",
                    <<"-f", Itoa(page), path, thumbPath(page) \o ".tmp">>, done))
              /\ IF done
                 THEN /\ fs' = Rasterise(fs, path, page, thumbPath(page) \o ".tmp")
                      /\ pc' = "T_rename"
                      /\ UNCHANGED ret
                 ELSE /\ Return("", Errorf("failed to generate thumb", cmdErr(ExitError)))
                      /\ UNCHANGED fs
    /\ UNCHANGED <<now, session, rest, annotated, locals, entry>>

ThumbnailTool ==
    /\ pc = "T_tool"
    /\ \E ok \in BOOLEAN :
          LET done == ok /\ HasPage(fs, path, page + 1)
          IN  /\ calls' = Append(calls, Cmd("pdftocairo",
                    <<"-f", Itoa(page + 1), path, thumbPath(page) \o ".tmp">>, done))
              /\ IF done
                 THEN /\ fs' = Rasterise(fs, path, page + 1, thumbPath(page) \o ".tmp")
                      /\ pc' = "T_rename"
                      /\ UNCHANGED ret
                 ELSE /\ Return("", Errorf("failed to generate thumb", cmdErr(ExitError)))
                      /\ UNCHANGED fs
    /\ UNCHANGED <<now, session, rest, annotated, locals, entry>>

ThumbnailRename ==
    /\ pc = "T_rename"
    /\ fs' = Rename(fs, thumbPath(page) \o ".tmp.png", thumbPath(page))
    /\ Return(thumbPath(page), "nil")
    /\ UNCHANGED <<now, session, rest, annotated, locals, calls, entry>>

\* _ = os.Rename(...) when the rename fails: the error is dropped, the
\* temporary file stays, and the cache path is returned with a nil error.
ThumbnailRenameFails ==
    /\ pc = "T_rename"
    /\ Return(thumbPath(page), "nil")
    /\ UNCHANGED <<fs, now, session, rest, annotated, locals, calls, entry>>

-----------------------------------------------------------------------------
(* IsAnnotated, HasAnnotations *)

IsAnnotatedCall(p) ==
    /\ Enter("IsAnnotated", p, IF InvalidPage(p) THEN "panic" ELSE "I_read")
    /\ UNCHANGED <<fs, now, session, rest, annotated>>

\* s.mu.Lock(); _, ok := s.annotated[page]; s.mu.Unlock(); return ok
IsAnnotatedRead ==
    /\ pc = "I_read"
    /\ mu = Free
    /\ Return(IF IsAnnotated(page) THEN "true" ELSE "false", "nil")
    /\ UNCHANGED <<fs, now, session, rest, annotated, locals, calls, entry>>

HasAnnotationsCall ==
    /\ Enter("HasAnnotations", -1, "H_read")
    /\ UNCHANGED <<fs, now, session, rest, annotated>>

\* s.mu.Lock(); defer s.mu.Unlock(); return len(s.annotated) > 0
HasAnnotationsRead ==
    /\ pc = "H_read"
    /\ mu = Free
    /\ Return(IF HasAnnotations THEN "true" ELSE "false", "nil")
    /\ UNCHANGED <<fs, now, session, rest, annotated, locals, calls, entry>>

-----------------------------------------------------------------------------
(* Annotate *)

AnnotateCall(p) ==
    /\ Enter("Annotate", p, IF InvalidPage(p) THEN "panic" ELSE "A_statSrc")
    /\ UNCHANGED <<fs, now, session, rest, annotated>>

\* Variant: the page is exported whether or not it was exported before.
AnnotateStatSrcAlways ==
    /\ pc = "A_statSrc"
    /\ pc' = "A_export"
    /\ UNCHANGED <<fs, now, session, rest, annotated, locals, ret, calls, entry>>

\* Export PDF page to SVG (if needed).
AnnotateStatSrc ==
    /\ pc = "A_statSrc"
    /\ pc' = IF Exists(fs, srcPath(page)) THEN "A_statAnnot" ELSE "A_export"
    /\ UNCHANGED <<fs, now, session, rest, annotated, locals, ret, calls, entry>>

AnnotateExport ==
    /\ pc = "A_export"
    /\ \E ok \in BOOLEAN :
          LET done == ok /\ HasPage(fs, path, page + 1)
          IN  /\ calls' = Append(calls, Cmd("inkscape-export-svg",
                    <<"--pages=" \o Itoa(page + 1), srcPath(page) \o ".svg", path>>, done))
              /\ IF done
                 THEN /\ fs' = ExportSVG(fs, path, page + 1, srcPath(page) \o ".svg")
                      /\ pc' = "A_renameSrc"
                      /\ UNCHANGED ret
                 ELSE /\ Return("false", Errorf("failed to convert page to svg", cmdErr(ExitError)))
                      /\ UNCHANGED fs
    /\ UNCHANGED <<now, session, rest, annotated, locals, entry>>

AnnotateRenameSrc ==
    /\ pc = "A_renameSrc"
    /\ fs' = Rename(fs, srcPath(page) \o ".svg", srcPath(page))
    /\ pc' = "A_statAnnot"
    /\ UNCHANGED <<now, session, rest, annotated, locals, ret, calls, entry>>

\* Create a new SVG with above as background (if needed).
AnnotateStatAnnot ==
    /\ pc = "A_statAnnot"
    /\ pc' = IF Exists(fs, annotPath(page)) THEN "A_statBefore" ELSE "A_parse"
    /\ UNCHANGED <<fs, now, session, rest, annotated, locals, ret, calls, entry>>

\* os.Open(srcPath) and the decoding of width, height and viewBox.
AnnotateParse ==
    /\ pc = "A_parse"
    /\ \E ok \in BOOLEAN :
          IF ~Exists(fs, srcPath(page))
          THEN Return("false", Errorf("failed to open", "no such file"))
          ELSE IF ~ok
          THEN Return("false", Errorf("failed to parse svg", "decode error"))
          ELSE pc' = "A_create" /\ UNCHANGED ret
    /\ UNCHANGED <<fs, now, session, rest, annotated, locals, calls, entry>>

\* os.Create(annotPath + ".tmp") and annotTpl.Execute with Href = srcPath.
AnnotateCreate ==
    /\ pc = "A_create"
    /\ \E ok \in BOOLEAN :
          IF ok
          THEN /\ fs' = WriteFile(fs, annotPath(page) \o ".tmp",
                                  annotTpl(srcPath(page)), now)
               /\ pc' = "A_renameAnnot"
               /\ UNCHANGED ret
          ELSE /\ Return("false", Errorf("failed to create", "i/o error"))
               /\ UNCHANGED fs
    /\ UNCHANGED <<now, session, rest, annotated, locals, calls, entry>>

AnnotateRenameAnnot ==
    /\ pc = "A_renameAnnot"
    /\ fs' = Rename(fs, annotPath(page) \o ".tmp", annotPath(page))
    /\ pc' = "A_statBefore"
    /\ UNCHANGED <<now, session, rest, annotated, locals, ret, calls, entry>>

\* Variant: the time of the call is recorded, not the document's.
AnnotateStatBeforeClock ==
    /\ pc = "A_statBefore"
    /\ IF Exists(fs, annotPath(page))
       THEN /\ beforeEditStat' = now
            /\ pc' = "A_edit"
            /\ UNCHANGED ret
       ELSE /\ Return("false", Errorf("failed to stat", "no such file"))
            /\ UNCHANGED beforeEditStat
    /\ UNCHANGED <<fs, now, session, rest, annotated, page, i, savePages, calls, entry>>

\* beforeEditStat, err := os.Stat(annotPath)
AnnotateStatBefore ==
    /\ pc = "A_statBefore"
    /\ IF Exists(fs, annotPath(page))
       THEN /\ beforeEditStat' = fs[annotPath(page)].mtime
            /\ pc' = "A_edit"
            /\ UNCHANGED ret
       ELSE /\ Return("false", Errorf("failed to stat", "no such file"))
            /\ UNCHANGED beforeEditStat
    /\ UNCHANGED <<fs, now, session, rest, annotated, page, i, savePages, calls, entry>>

\* What the user leaves in the document doc on saving it: its locked
\* background under one drawing.
EditorSaves(doc) ==
    {SelectSeq(doc, srcBGPat) \o <<Elem("path", d, "")>> : d \in Drawings}

\* Variant: the editor's exit status is dropped.
AnnotateEditIgnoringExit ==
    /\ pc = "A_edit"
    /\ \E save \in BOOLEAN, dt \in 0..1, exitOK \in BOOLEAN :
          /\ calls' = Append(calls, Cmd("inkscape", <<annotPath(page)>>, exitOK))
          /\ now + dt <= MaxTime
          /\ now' = now + dt
          /\ IF save
             THEN \E doc \in EditorSaves(fs[annotPath(page)].data) :
                     fs' = WriteFile(fs, annotPath(page), doc, now')
             ELSE UNCHANGED fs
          /\ pc' = "A_statAfter"
    /\ UNCHANGED <<session, rest, annotated, locals, ret, entry>>

\* Variant: a page whose editor exited with failure is marked all the same.
AnnotateEditFailureMarks ==
    /\ pc = "A_edit"
    /\ \E save \in BOOLEAN, dt \in 0..1, exitOK \in BOOLEAN :
          /\ calls' = Append(calls, Cmd("inkscape", <<annotPath(page)>>, exitOK))
          /\ now + dt <= MaxTime
          /\ now' = now + dt
          /\ IF save
             THEN \E doc \in EditorSaves(fs[annotPath(page)].data) :
                     fs' = WriteFile(fs, annotPath(page), doc, now')
             ELSE UNCHANGED fs
          /\ IF exitOK
             THEN pc' = "A_statAfter" /\ UNCHANGED <<ret, annotated>>
             ELSE /\ Return("false", Errorf("inkscape exited with error while editing",
                                            ExitError.msg))
                  /\ annotated' = annotated \cup {page}
    /\ UNCHANGED <<session, rest, locals, entry>>

\* exec.Command("inkscape", annotPath).Output(): the editor runs until the
\* user closes it.  The user saves or not, dt ticks of the clock pass before
\* the save, and the process exits with or without failure.
AnnotateEdit ==
    /\ pc = "A_edit"
    /\ \E save \in BOOLEAN, dt \in 0..1, exitOK \in BOOLEAN :
          /\ calls' = Append(calls, Cmd("inkscape", <<annotPath(page)>>, exitOK))
          /\ now + dt <= MaxTime
          /\ now' = now + dt
          /\ IF save
             THEN \E doc \in EditorSaves(fs[annotPath(page)].data) :
                     fs' = WriteFile(fs, annotPath(page), doc, now')
             ELSE UNCHANGED fs
          /\ IF exitOK
             THEN pc' = "A_statAfter" /\ UNCHANGED ret
             ELSE Return("false", Errorf("inkscape exited with error while editing",
                                         ExitError.msg))
    /\ UNCHANGED <<session, rest, annotated, locals, entry>>

\* Variant: the two os.FileInfo values are compared, which never are equal.
modifiedAlways(after, before) == TRUE

\* afterEditStat and modified := afterEditStat.ModTime() != beforeEditStat.ModTime()
modified(after, before) == after # before

\* Variant: a page the user left unmodified is taken out of the map.
AnnotateStatAfterUnmarks ==
    /\ pc = "A_statAfter"
    /\ IF ~Exists(fs, annotPath(page))
       THEN Return("false", Errorf("failed to stat", "no such file")) /\ UNCHANGED annotated
       ELSE IF modified(fs[annotPath(page)].mtime, beforeEditStat)
       THEN pc' = "A_rmThumb" /\ UNCHANGED <<ret, annotated>>
       ELSE Return("false", "nil") /\ annotated' = annotated \ {page}
    /\ UNCHANGED <<fs, now, session, rest, locals, calls, entry>>

AnnotateStatAfter ==
    /\ pc = "A_statAfter"
    /\ IF ~Exists(fs, annotPath(page))
       THEN Return("false", Errorf("failed to stat", "no such file"))
       ELSE IF modified(fs[annotPath(page)].mtime, beforeEditStat)
       THEN pc' = "A_rmThumb" /\ UNCHANGED ret
       ELSE Return("false", "nil")
    /\ UNCHANGED <<fs, now, session, rest, annotated, locals, calls, entry>>

\* Variant: the cached thumbnail is left in place.
AnnotateKeepThumb ==
    /\ pc = "A_rmThumb"
    /\ pc' = "A_mark"
    /\ UNCHANGED <<fs, now, session, rest, annotated, locals, ret, calls, entry>>

\* _ = os.Remove(s.thumbPath(page))
AnnotateRemoveThumb ==
    /\ pc = "A_rmThumb"
    /\ fs' = Remove(fs, thumbPath(page))
    /\ pc' = "A_mark"
    /\ UNCHANGED <<now, session, rest, annotated, locals, ret, calls, entry>>

\* s.mu.Lock(); s.annotated[page] = struct{}{}; s.mu.Unlock(); return modified, nil
AnnotateMark ==
    /\ pc = "A_mark"
    /\ mu = Free
    /\ annotated' = annotated \cup {page}
    /\ Return("true", "nil")
    /\ UNCHANGED <<fs, now, session, rest, locals, calls, entry>>

-----------------------------------------------------------------------------
(* Clear *)

ClearCall(p) ==
    /\ Enter("Clear", p, IF InvalidPage(p) THEN "panic" ELSE "C_rmAnnot")
    /\ UNCHANGED <<fs, now, session, rest, annotated>>

\* Variant: the annotation document is left in place.
ClearKeepAnnot ==
    /\ pc = "C_rmAnnot"
    /\ pc' = "C_rmThumb"
    /\ UNCHANGED <<fs, now, session, rest, annotated, locals, ret, calls, entry>>

\* Variant: Clear removes the source representation, not the document.
ClearRemoveSrcNotAnnot ==
    /\ pc = "C_rmAnnot"
    /\ fs' = Remove(fs, srcPath(page))
    /\ pc' = "C_rmThumb"
    /\ UNCHANGED <<now, session, rest, annotated, locals, ret, calls, entry>>

\* _ = os.Remove(s.annotPath(page))
ClearRemoveAnnot ==
    /\ pc = "C_rmAnnot"
    /\ fs' = Remove(fs, annotPath(page))
    /\ pc' = "C_rmThumb"
    /\ UNCHANGED <<now, session, rest, annotated, locals, ret, calls, entry>>

\* Variant: Clear also removes the source representation of the page.
ClearRemoveThumbAndSrc ==
    /\ pc = "C_rmThumb"
    /\ fs' = Remove(Remove(fs, thumbPath(page)), srcPath(page))
    /\ pc' = "C_unmark"
    /\ UNCHANGED <<now, session, rest, annotated, locals, ret, calls, entry>>

\* _ = os.Remove(s.thumbPath(page))
ClearRemoveThumb ==
    /\ pc = "C_rmThumb"
    /\ fs' = Remove(fs, thumbPath(page))
    /\ pc' = "C_unmark"
    /\ UNCHANGED <<now, session, rest, annotated, locals, ret, calls, entry>>

\* Variant: the whole map is emptied.
ClearUnmarkAll ==
    /\ pc = "C_unmark"
    /\ mu = Free
    /\ annotated' = {}
    /\ Return("", "nil")
    /\ UNCHANGED <<fs, now, session, rest, locals, calls, entry>>

\* Variant: the page is deleted from the map without taking the mutex.
ClearUnmarkUnlocked ==
    /\ pc = "C_unmark"
    /\ annotated' = annotated \ {page}
    /\ Return("", "nil")
    /\ UNCHANGED <<fs, now, session, rest, locals, calls, entry>>

\* s.mu.Lock(); delete(s.annotated, page); s.mu.Unlock()
ClearUnmark ==
    /\ pc = "C_unmark"
    /\ mu = Free
    /\ annotated' = annotated \ {page}
    /\ Return("", "nil")
    /\ UNCHANGED <<fs, now, session, rest, locals, calls, entry>>

-----------------------------------------------------------------------------
(* Save *)

SaveCall ==
    /\ Enter("Save", -1, "S_check")
    /\ UNCHANGED <<fs, now, session, rest, annotated>>

\* Shortcut for when no page is annotated: the length of the map is read
\* in one critical section.
SaveCheck ==
    /\ pc = "S_check"
    /\ mu = Free
    /\ IF Cardinality(annotated) = 0
       THEN pc' = "S_fastCopy" /\ UNCHANGED <<i, savePages>>
       ELSE pc' = "S_loop" /\ i' = 0 /\ savePages' = <<>>
    /\ UNCHANGED <<fs, now, session, rest, annotated, page, beforeEditStat, ret, calls,
                   entry>>

\* Variant: the shortcut copies the composed file of an earlier Save.
SaveFastCopyComposed ==
    /\ pc = "S_fastCopy"
    /\ LET r == fileCopy(fs, finalPath, DestPath)
       IN  fs' = r.fs /\ Return("", r.err)
    /\ UNCHANGED <<now, session, rest, annotated, locals, calls, entry>>

\* Variant: the shortcut copies the file the user handed to New.
SaveFastCopyFromInput ==
    /\ pc = "S_fastCopy"
    /\ LET r == fileCopy(fs, InputPath, DestPath)
       IN  fs' = r.fs /\ Return("", r.err)
    /\ UNCHANGED <<now, session, rest, annotated, locals, calls, entry>>

\* return fileCopy(s.path, path)
SaveFastCopy ==
    /\ pc = "S_fastCopy"
    /\ LET r == fileCopy(fs, path, DestPath)
       IN  fs' = r.fs /\ Return("", r.err)
    /\ UNCHANGED <<now, session, rest, annotated, locals, calls, entry>>

\* Variant: every page that has an annotation document is exported.
SaveLoopEveryDocument ==
    /\ pc = "S_loop"
    /\ IF i >= pageCount
       THEN pc' = "S_merge" /\ UNCHANGED <<i, savePages>>
       ELSE IF ~Exists(fs, annotPath(i))
       THEN pc' = "S_loop" /\ i' = i + 1 /\ UNCHANGED savePages
       ELSE pc' = "S_clean" /\ savePages' = Append(savePages, i) /\ UNCHANGED i
    /\ UNCHANGED <<fs, now, session, rest, annotated, page, beforeEditStat, ret, calls,
                   entry>>

\* for i := 0; i < s.pageCount; i++ { if !s.IsAnnotated(i) { continue } ...
SaveLoop ==
    /\ pc = "S_loop"
    /\ i >= pageCount \/ mu = Free
    /\ IF i >= pageCount
       THEN pc' = "S_merge" /\ UNCHANGED <<i, savePages>>
       ELSE IF ~IsAnnotated(i)
       THEN pc' = "S_loop" /\ i' = i + 1 /\ UNCHANGED savePages
       ELSE pc' = "S_clean" /\ savePages' = Append(savePages, i) /\ UNCHANGED i
    /\ UNCHANGED <<fs, now, session, rest, annotated, page, beforeEditStat, ret, calls,
                   entry>>

\* Variant: the stripped text is written over the annotation document.
SaveCleanInPlace ==
    /\ pc = "S_clean"
    /\ \E readOK \in BOOLEAN, writeOK \in BOOLEAN :
          IF ~(readOK /\ Exists(fs, annotPath(i)))
          THEN /\ Return("", Errorf("failed to read back", "read error"))
               /\ UNCHANGED fs
          ELSE IF ~writeOK
          THEN /\ Return("", Errorf("failed to write back", "write error"))
               /\ UNCHANGED fs
          ELSE /\ fs' = WriteFile(WriteFile(fs, annotPath(i) \o ".cleaned.svg",
                                            StripBG(fs[annotPath(i)].data), 0),
                                  annotPath(i), StripBG(fs[annotPath(i)].data),
                                  fs[annotPath(i)].mtime)
               /\ pc' = "S_export"
               /\ UNCHANGED ret
    /\ UNCHANGED <<now, session, rest, annotated, locals, calls, entry>>

\* Remove the backgrounds: ReadFile(annotPath), srcBGPat.ReplaceAll,
\* WriteFile(annotPath + ".cleaned.svg").  Either file call can fail.
SaveClean ==
    /\ pc = "S_clean"
    /\ \E readOK \in BOOLEAN, writeOK \in BOOLEAN :
          IF ~(readOK /\ Exists(fs, annotPath(i)))
          THEN /\ Return("", Errorf("failed to read back", "read error"))
               /\ UNCHANGED fs
          ELSE IF ~writeOK
          THEN /\ Return("", Errorf("failed to write back", "write error"))
               /\ UNCHANGED fs
          ELSE /\ fs' = WriteFile(fs, annotPath(i) \o ".cleaned.svg",
                                  StripBG(fs[annotPath(i)].data), 0)
               /\ pc' = "S_export"
               /\ UNCHANGED ret
    /\ UNCHANGED <<now, session, rest, annotated, locals, calls, entry>>

\* Convert to PDF.
SaveExport ==
    /\ pc = "S_export"
    /\ \E ok \in BOOLEAN :
          LET done == ok /\ Exists(fs, annotPath(i) \o ".cleaned.svg")
          IN  /\ calls' = Append(calls, Cmd("inkscape-export-pdf",
                    <<annotPath(i) \o ".pdf", annotPath(i) \o ".cleaned.svg">>, done))
              /\ IF done
                 THEN /\ fs' = ExportPDF(fs, annotPath(i) \o ".cleaned.svg",
                                         annotPath(i) \o ".pdf")
                      /\ i' = i + 1
                      /\ pc' = "S_loop"
                      /\ UNCHANGED ret
                 ELSE /\ Return("", Errorf("failed to convert annotation SVG to PDF",
                                           cmdErr(ExitError)))
                      /\ UNCHANGED <<fs, i>>
    /\ UNCHANGED <<now, session, rest, annotated, page, savePages, beforeEditStat, entry>>

\* for _, p := range annotated { args = append(args, s.annotPath(p)+".pdf") }
mergeArgs(pages) == [k \in 1..Len(pages) |-> annotPath(pages[k]) \o ".pdf"]

\* Variant: Save goes on to the overlay after a merge that failed.
SaveMergeContinues ==
    /\ pc = "S_merge"
    /\ \E ok \in BOOLEAN :
          LET done == ok /\ \A k \in 1..Len(savePages) :
                                Exists(fs, mergeArgs(savePages)[k])
          IN  /\ calls' = Append(calls, Cmd("qpdf-merge",
                    mergeArgs(savePages) \o <<"--", overlayPath>>, done))
              /\ fs' = IF done THEN MergePages(fs, mergeArgs(savePages), overlayPath)
                       ELSE fs
              /\ pc' = "S_overlay"
              /\ UNCHANGED ret
    /\ UNCHANGED <<now, session, rest, annotated, locals, entry>>

\* Append all annotated PDFs into a single PDF.
SaveMerge ==
    /\ pc = "S_merge"
    /\ \E ok \in BOOLEAN :
          LET done == ok /\ \A k \in 1..Len(savePages) :
                                Exists(fs, mergeArgs(savePages)[k])
          IN  /\ calls' = Append(calls, Cmd("qpdf-merge",
                    mergeArgs(savePages) \o <<"--", overlayPath>>, done))
              /\ IF done
                 THEN /\ fs' = MergePages(fs, mergeArgs(savePages), overlayPath)
                      /\ pc' = "S_overlay"
                      /\ UNCHANGED ret
                 ELSE /\ Return("", Errorf("failed to merge annotated pages",
                                           cmdErr(ExitError)))
                      /\ UNCHANGED fs
    /\ UNCHANGED <<now, session, rest, annotated, locals, entry>>

\* Overlay and create the final file.
SaveOverlay ==
    /\ pc = "S_overlay"
    /\ \E ok \in BOOLEAN :
          LET to == IF Exists(fs, path)
                    THEN ParsePageRange(pageRange(savePages), Len(fs[path].data))
                    ELSE <<0>>
              done == ok /\ Exists(fs, path) /\ Exists(fs, overlayPath) /\ to # <<0>>
          IN  /\ calls' = Append(calls, Cmd("qpdf-overlay",
                    <<path, "--overlay", overlayPath, "--to=", pageRange(savePages),
                      "--", finalPath>>, done))
              /\ IF done
                 THEN /\ fs' = OverlayPages(fs, path, overlayPath, to, finalPath)
                      /\ pc' = "S_copy"
                      /\ UNCHANGED ret
                 ELSE /\ Return("", Errorf("failed to overlay annotated pages",
                                           cmdErr(ExitError)))
                      /\ UNCHANGED fs
    /\ UNCHANGED <<now, session, rest, annotated, locals, entry>>

\* return fileCopy(finalPath, path)
SaveCopy ==
    /\ pc = "S_copy"
    /\ LET r == fileCopy(fs, finalPath, DestPath)
       IN  fs' = r.fs /\ Return("", r.err)
    /\ UNCHANGED <<now, session, rest, annotated, locals, calls, entry>>

-----------------------------------------------------------------------------
(* New.  The caller has no session until New returns one.                  *)

\* Largest page count of the document handed to New.
MaxInputPages == 1

\* What qpdf --show-npages prints for a document, in chunks of text.
ShowNPages(doc) == <<Itoa(Len(doc)), "\n">>

\* strings.TrimSpace on chunks of text.
WhiteSpace == {" ", "\n"}

RECURSIVE TrimLeft(_)
TrimLeft(s) ==
    IF s # <<>> /\ Head(s) \in WhiteSpace THEN TrimLeft(Tail(s)) ELSE s

RECURSIVE TrimRight(_)
TrimRight(s) ==
    IF s # <<>> /\ s[Len(s)] \in WhiteSpace
    THEN TrimRight(SubSeq(s, 1, Len(s) - 1))
    ELSE s

TrimSpace(s) == JoinStr(TrimRight(TrimLeft(s)), "")

\* Variant: text that is no number reads as zero.
AtoiLenient(str) ==
    IF \E n \in -1..(MaxPages + 1) : Itoa(n) = str
    THEN [n |-> CHOOSE n \in -1..(MaxPages + 1) : Itoa(n) = str, err |-> "nil"]
    ELSE [n |-> 0, err |-> "nil"]

\* strconv.Atoi: the number written as str, or an error.
Atoi(str) ==
    IF \E n \in -1..(MaxPages + 1) : Itoa(n) = str
    THEN [n |-> CHOOSE n \in -1..(MaxPages + 1) : Itoa(n) = str, err |-> "nil"]
    ELSE [n |-> 0, err |-> "invalid syntax"]

\* return nil, err
NewFails(err) ==
    /\ pc' = "nosession"
    /\ ret' = [ret EXCEPT !.val = "nil", !.err = err]

\* Before New: the user's file with up to MaxInputPages pages, no session.
InitNew ==
    /\ \E n \in 0..MaxInputPages :
          fs = [f \in {InputPath} |-> File(InputPdf(n), 0)]
    /\ path = ""
    /\ pageCount = 0
    /\ tmpDir = ""
    /\ annotated = {}
    /\ now = 0
    /\ pc = "N_pages"
    /\ page = -1
    /\ i = 0
    /\ savePages = <<>>
    /\ beforeEditStat = 0
    /\ ret = [NoRet EXCEPT !.op = "New"]
    /\ calls = <<>>
    /\ entry = [fs |-> fs, annotated |-> {}]
    /\ frame = NoFrame
    /\ mu = Free
    /\ bg = BgIdle

\* Get page count: qpdf --warning-exit-0 --show-npages path.  The tool exits
\* with failure, or prints the count, or prints something else.
NewPages ==
    /\ pc = "N_pages"
    /\ \E ok \in BOOLEAN, numeric \in BOOLEAN :
          LET done == ok /\ Exists(fs, InputPath)
          IN  /\ calls' = Append(calls, Cmd("qpdf-show-npages", <<InputPath>>, done))
              /\ IF done
                 THEN /\ frame' = [frame EXCEPT !.out =
                               IF numeric THEN ShowNPages(fs[InputPath].data)
                               ELSE <<"n/a", "\n">>]
                      /\ pc' = "N_atoi"
                      /\ UNCHANGED ret
                 ELSE /\ NewFails(cmdErr(ExitError))
                      /\ UNCHANGED frame
    /\ UNCHANGED <<fs, now, session, annotated, locals, entry, mu, bg>>

\* p, err := strconv.Atoi(strings.TrimSpace(string(out)))
NewAtoi ==
    /\ pc = "N_atoi"
    /\ LET r == Atoi(TrimSpace(frame.out))
       IN  IF r.err = "nil"
           THEN /\ frame' = [frame EXCEPT !.p = r.n]
                /\ pc' = "N_tempdir"
                /\ UNCHANGED ret
           ELSE /\ NewFails(Errorf("cannot convert page count", r.err))
                /\ UNCHANGED frame
    /\ UNCHANGED <<fs, now, session, annotated, locals, calls, entry, mu, bg>>

\* Create temp dir.
NewTempDir ==
    /\ pc = "N_tempdir"
    /\ \E ok \in BOOLEAN :
          IF ok
          THEN /\ fs' = [x \in DOMAIN fs \cup {StagingDir} |->
                            IF x = StagingDir THEN Dir ELSE fs[x]]
               /\ frame' = [frame EXCEPT !.dir = StagingDir]
               /\ pc' = "N_copy"
               /\ UNCHANGED ret
          ELSE /\ NewFails(Errorf("failed to create temp directory", "mkdir error"))
               /\ UNCHANGED <<fs, frame>>
    /\ UNCHANGED <<now, session, annotated, locals, calls, entry, mu, bg>>

\* What a copy that failed half way leaves behind.
Truncated == <<<<Elem("truncated", "", "")>>>>

\* Make our own copy: fileCopy(path, copyPath).  The copy can also fail
\* half way, leaving a file that was created and not filled.
NewCopy ==
    /\ pc = "N_copy"
    /\ \E ok \in BOOLEAN :
          LET copyPath == Join(frame.dir, "src.pdf")
              r == fileCopy(fs, InputPath, copyPath)
          IN  IF r.err # "nil"
              THEN NewFails(r.err) /\ UNCHANGED fs
              ELSE IF ~ok
              THEN /\ NewFails("write " \o copyPath \o ": i/o error")
                   /\ fs' = WriteFile(fs, copyPath, Truncated, 0)
              ELSE fs' = r.fs /\ pc' = "N_return" /\ UNCHANGED ret
    /\ UNCHANGED <<now, session, annotated, locals, calls, entry, frame, mu, bg>>

\* return &Session{path: copyPath, pageCount: p, tmpDir: tmpDir,
\*                 annotated: map[int]struct{}{}}, nil
NewReturn ==
    /\ pc = "N_return"
    /\ path' = Join(frame.dir, "src.pdf")
    /\ pageCount' = frame.p
    /\ tmpDir' = frame.dir
    /\ annotated' = {}
    /\ pc' = "idle"
    /\ ret' = [ret EXCEPT !.val = "session", !.err = "nil"]
    /\ UNCHANGED <<fs, now, locals, calls, entry, frame, mu, bg>>

\* Another program rewrites or deletes the file the user handed to New.
OtherPdf == <<<<Elem("page", "other", "")>>>>

InputChanges ==
    /\ \E new \in {File(OtherPdf, 0)} :
          \/ Exists(fs, InputPath) /\ fs' = Remove(fs, InputPath)
          \/ /\ ~(Exists(fs, InputPath) /\ fs[InputPath] = new)
             /\ fs' = WriteFile(fs, InputPath, new.data, new.mtime)
    /\ UNCHANGED <<now, session, annotated, pc, locals, ret, calls, entry, rest>>

-----------------------------------------------------------------------------
(* A second goroutine that calls IsAnnotated and HasAnnotations while the  *)
(* first is inside Annotate or Clear.  Its critical section is cut at the  *)
(* lock, the map access and the unlock; the Go runtime stops the program   *)
(* when a map is written while it is being read.                           *)

Bool(b) == IF b THEN "true" ELSE "false"

\* IsAnnotated(p) with a valid page, or HasAnnotations(), is called.
BgCall ==
    /\ bg.pc = "idle"
    /\ \E op \in {"IsAnnotated", "HasAnnotations"} :
       \E p \in 0..(pageCount - 1) :
          /\ op = "HasAnnotations" => p = 0
          /\ bg' = [pc |-> "lock", op |-> op,
                    page |-> IF op = "IsAnnotated" THEN p ELSE -1,
                    seen |-> {}, val |-> ""]
    /\ UNCHANGED <<fs, now, session, annotated, pc, locals, ret, calls, entry,
                   frame, mu>>

\* s.mu.Lock()
BgLock ==
    /\ bg.pc = "lock"
    /\ mu = Free
    /\ mu' = "bg"
    /\ bg' = [bg EXCEPT !.pc = "read"]
    /\ UNCHANGED <<fs, now, session, annotated, pc, locals, ret, calls, entry,
                   frame>>

\* The map access begins: s.annotated[page], len(s.annotated).
BgRead ==
    /\ bg.pc = "read"
    /\ bg' = [bg EXCEPT !.pc = "readEnd", !.seen = annotated]
    /\ UNCHANGED <<fs, now, session, annotated, pc, locals, ret, calls, entry,
                   frame, mu>>

\* The map access ends with the value, unless the map was written meanwhile
\* (fatal error: concurrent map read and map write).
BgReadEnd ==
    /\ bg.pc = "readEnd"
    /\ IF annotated # bg.seen
       THEN bg' = [bg EXCEPT !.pc = "fatal"]
       ELSE bg' = [bg EXCEPT !.pc = "unlock",
                             !.val = IF bg.op = "IsAnnotated"
                                     THEN Bool(IsAnnotated(bg.page))
                                     ELSE Bool(HasAnnotations)]
    /\ UNCHANGED <<fs, now, session, annotated, pc, locals, ret, calls, entry,
                   frame, mu>>

\* s.mu.Unlock(); return
BgUnlock ==
    /\ bg.pc = "unlock"
    /\ mu' = Free
    /\ bg' = [bg EXCEPT !.pc = "idle"]
    /\ UNCHANGED <<fs, now, session, annotated, pc, locals, ret, calls, entry,
                   frame>>

-----------------------------------------------------------------------------
(* A second goroutine that calls Annotate and Clear, with valid pages,     *)
(* while the first is inside Save.  Its steps are cut where Save can see   *)
(* them: the staging of the page's files, the editor's run, the removals,  *)
(* and the critical section that writes the map.  bg.seen collects every   *)
(* value the map is given while the Save is running.                      *)

SaveRunning == ret.op = "Save" /\ pc # "idle"

\* The goroutine returns; S is the value it gave the map, if it wrote it.
WrReturn(S) ==
    [BgIdle EXCEPT !.seen = IF SaveRunning THEN bg.seen \cup S ELSE bg.seen]

WrCall ==
    /\ bg.pc = "idle"
    /\ \E op \in {"Annotate", "Clear"} : \E p \in 0..(pageCount - 1) :
          bg' = [bg EXCEPT !.pc = IF op = "Annotate" THEN "stage" ELSE "remove",
                           !.op = op, !.page = p]
    /\ UNCHANGED <<fs, now, session, annotated, pc, locals, ret, calls, entry,
                   frame, mu>>

\* Annotate: export the page to SVG (if needed) and create a new SVG with it
\* as background (if needed); a failure on the way returns an error.
WrAnnotateStage ==
    /\ bg.pc = "stage"
    /\ \E ok \in BOOLEAN :
          LET p  == bg.page
              F1 == IF Exists(fs, srcPath(p)) THEN fs
                    ELSE Rename(ExportSVG(fs, path, p + 1, srcPath(p) \o ".svg"),
                                srcPath(p) \o ".svg", srcPath(p))
              F2 == IF Exists(F1, annotPath(p)) THEN F1
                    ELSE WriteFile(F1, annotPath(p), annotTpl(srcPath(p)), now)
          IN  IF ~ok /\ F2 # fs
              THEN bg' = WrReturn({}) /\ UNCHANGED fs
              ELSE bg' = [bg EXCEPT !.pc = "edit"] /\ fs' = F2
    /\ UNCHANGED <<now, session, annotated, pc, locals, ret, calls, entry,
                   frame, mu>>

\* Annotate: the stat, the editor's run, the second stat and the comparison
\* of the two modification times.
WrAnnotateEdit ==
    /\ bg.pc = "edit"
    /\ \E save \in BOOLEAN, dt \in 0..1, exitOK \in BOOLEAN :
          LET doc == annotPath(bg.page)
          IN  /\ now + dt <= MaxTime
              /\ now' = now + dt
              /\ IF save
                 THEN \E d \in EditorSaves(fs[doc].data) :
                         fs' = WriteFile(fs, doc, d, now')
                 ELSE UNCHANGED fs
              /\ bg' = IF exitOK /\ modified(fs'[doc].mtime, fs[doc].mtime)
                       THEN [bg EXCEPT !.pc = "mark"]
                       ELSE WrReturn({})
    /\ UNCHANGED <<session, annotated, pc, locals, ret, calls, entry, frame, mu>>

\* Annotate: the thumbnail is removed and the page put in the map, under
\* the mutex.
WrAnnotateMark ==
    /\ bg.pc = "mark"
    /\ mu = Free
    /\ fs' = Remove(fs, thumbPath(bg.page))
    /\ annotated' = annotated \cup {bg.page}
    /\ bg' = WrReturn({annotated'})
    /\ UNCHANGED <<now, session, pc, locals, ret, calls, entry, frame, mu>>

\* Clear: the document and the thumbnail are removed.
WrClearRemove ==
    /\ bg.pc = "remove"
    /\ fs' = Remove(Remove(fs, annotPath(bg.page)), thumbPath(bg.page))
    /\ bg' = [bg EXCEPT !.pc = "unmark"]
    /\ UNCHANGED <<now, session, annotated, pc, locals, ret, calls, entry,
                   frame, mu>>

\* Clear: the page is deleted from the map, under the mutex.
WrClearUnmark ==
    /\ bg.pc = "unmark"
    /\ mu = Free
    /\ annotated' = annotated \ {bg.page}
    /\ bg' = WrReturn({annotated'})
    /\ UNCHANGED <<fs, now, session, pc, locals, ret, calls, entry, frame, mu>>

\* The first goroutine calls Save, once.
SaveOnce ==
    /\ ret = NoRet
    /\ SaveCall

-----------------------------------------------------------------------------
(* Close, IsClosed, PageCount *)

\* The paths that are not inside the staging directory.
Outside == {InputPath, DestPath, StagingDir}

RECURSIVE SetToSeq(_)
SetToSeq(S) ==
    IF S = {} THEN <<>>
    ELSE LET x == CHOOSE x \in S : TRUE IN <<x>> \o SetToSeq(S \ {x})

\* Variant: the empty path is read as the working directory.
ReadDirCwd(F, dir) ==
    IF dir = StagingDir /\ Exists(F, dir)
    THEN SetToSeq(DOMAIN F \ Outside)
    ELSE IF dir = ""
    THEN SetToSeq(DOMAIN F \cap {InputPath, DestPath})
    ELSE <<>>

\* ioutil.ReadDir(dir): the entries of the directory, none if it cannot be
\* read.
ReadDir(F, dir) ==
    IF dir = StagingDir /\ Exists(F, dir)
    THEN SetToSeq(DOMAIN F \ Outside)
    ELSE <<>>

\* PageCount returns the number of pages in the PDF document.
PageCount == pageCount

\* IsClosed returns true if Close() has been called earlier.
IsClosed == pageCount = -1

CloseCall ==
    /\ Enter("Close", -1, "X_readdir")
    /\ UNCHANGED <<fs, now, session, rest, annotated>>

\* files, _ := ioutil.ReadDir(s.tmpDir)
CloseReadDir ==
    /\ pc = "X_readdir"
    /\ frame' = [frame EXCEPT !.files = ReadDir(fs, tmpDir)]
    /\ pc' = "X_remove"
    /\ UNCHANGED <<fs, now, session, annotated, locals, ret, calls, entry, mu, bg>>

\* Variant: the loop stops after the first file.
CloseRemoveFirstOnly ==
    /\ pc = "X_remove"
    /\ IF frame.files = <<>>
       THEN pc' = "X_rmdir" /\ UNCHANGED <<fs, frame, calls>>
       ELSE /\ fs' = Remove(fs, Head(frame.files))
            /\ calls' = Append(calls, Cmd("remove-file", <<Head(frame.files)>>, TRUE))
            /\ frame' = [frame EXCEPT !.files = <<>>]
            /\ pc' = "X_remove"
    /\ UNCHANGED <<now, session, annotated, locals, ret, entry, mu, bg>>

\* for _, f := range files { _ = os.Remove(filepath.Join(s.tmpDir, f.Name())) }
\* A removal can fail; the error is dropped.
CloseRemove ==
    /\ pc = "X_remove"
    /\ IF frame.files = <<>>
       THEN pc' = "X_rmdir" /\ UNCHANGED <<fs, frame, calls>>
       ELSE /\ \E ok \in BOOLEAN :
                  /\ fs' = IF ok THEN Remove(fs, Head(frame.files)) ELSE fs
                  /\ calls' = Append(calls,
                                Cmd("remove-file", <<Head(frame.files)>>, ok))
            /\ frame' = [frame EXCEPT !.files = Tail(frame.files)]
            /\ pc' = "X_remove"
    /\ UNCHANGED <<now, session, annotated, locals, ret, entry, mu, bg>>

\* _ = os.Remove(s.tmpDir): removes the directory if it is empty.
CloseRemoveDir ==
    /\ pc = "X_rmdir"
    /\ LET empty == Exists(fs, tmpDir) /\ ReadDir(fs, tmpDir) = <<>>
       IN  /\ fs' = IF empty THEN Remove(fs, tmpDir) ELSE fs
           /\ calls' = Append(calls, Cmd("remove-dir", <<tmpDir>>, empty))
    /\ pc' = "X_nil"
    /\ UNCHANGED <<now, session, annotated, locals, ret, entry, rest>>

\* s.mu.Lock(); s.annotated = nil; s.mu.Unlock().  A nil map reads as an
\* empty one.
CloseNil ==
    /\ pc = "X_nil"
    /\ mu = Free
    /\ annotated' = {}
    /\ pc' = "X_fields"
    /\ UNCHANGED <<fs, now, session, locals, ret, calls, entry, rest>>

\* s.tmpDir = ""; s.pageCount = -1; s.path = ""
CloseFields ==
    /\ pc = "X_fields"
    /\ tmpDir' = ""
    /\ pageCount' = -1
    /\ path' = ""
    /\ Return("", "nil")
    /\ UNCHANGED <<fs, now, annotated, locals, calls, entry, rest>>

-----------------------------------------------------------------------------

Next ==
    \/ \E p \in PageArgs : ThumbnailCall(p)
    \/ ThumbnailStat
    \/ ThumbnailTool
    \/ ThumbnailRename
    \/ \E p \in PageArgs : IsAnnotatedCall(p)
    \/ IsAnnotatedRead
    \/ HasAnnotationsCall
    \/ HasAnnotationsRead
    \/ \E p \in PageArgs : AnnotateCall(p)
    \/ AnnotateStatSrc
    \/ AnnotateExport
    \/ AnnotateRenameSrc
    \/ AnnotateStatAnnot
    \/ AnnotateParse
    \/ AnnotateCreate
    \/ AnnotateRenameAnnot
    \/ AnnotateStatBefore
    \/ AnnotateEdit
    \/ AnnotateStatAfter
    \/ AnnotateRemoveThumb
    \/ AnnotateMark
    \/ \E p \in PageArgs : ClearCall(p)
    \/ ClearRemoveAnnot
    \/ ClearRemoveThumb
    \/ ClearUnmark
    \/ SaveCall
    \/ SaveCheck
    \/ SaveFastCopy
    \/ SaveLoop
    \/ SaveClean
    \/ SaveExport
    \/ SaveMerge
    \/ SaveOverlay
    \/ SaveCopy

Spec == Init /\ [][Next]_vars

\* The whole life of a session: New, the operations, Close and whatever is
\* called after it, while another program may change the user's file.
-----------------------------------------------------------------------------
(* The strip of Save on the text of the document.  The text is a sequence  *)
(* of pieces: the opening of a tag, white space, an attribute, the end of  *)
(* a tag.  The regular expression of srcBGPat is followed piece by piece.  *)

\* Largest number of elements of a document that is stripped.
MaxElems == 3

\* The elements a document is made of: the locked background, an image the
\* user placed, and paths the user drew, one of them named like the
\* background.
Elems == {Elem(tag, id, "h") : tag \in {"image", "path"}, id \in {"src-bg", "u1"}}

Docs == UNION {[1..n -> Elems] : n \in 0..MaxElems}

\* <svg ... > and </svg>, as annotTpl and the editor write them.
SvgOpen == <<"<svg", "\n   ", "version=\"1.1\"", ">", "\n">>

SvgClose == <<"</svg>", "\n">>

\* One element: <tag id="..." xlink:href="..." />
ElemText(e) ==
    <<"<" \o e.tag, "\n   ", "id=\"" \o e.id \o "\"", "\n   ",
      "xlink:href=\"" \o e.href \o "\"", " />">>

RECURSIVE Body(_)
Body(doc) ==
    IF doc = <<>> THEN <<>>
    ELSE ElemText(Head(doc)) \o <<"\n">> \o Body(Tail(doc))

\* The bytes of the document doc.
Marshal(doc) == SvgOpen \o Body(doc) \o SvgClose

\* Variant of <image: any tag opens a match.
OpensAnyTag(piece) == piece \in {"<image", "<path", "<svg"}

\* <image
OpensImage(piece) == piece = "<image"

\* A piece that [^>]* does not run over.
HasGT(piece) == piece \in {">", " />", "</svg>"}

\* id="src-bg"
IdSrcBG(piece) == piece = "id=\"src-bg\""

\* srcBGPat matched at piece k of text: the index of the last piece of
\* the match, 0 if there is none.  [^>]* runs to the first > after <image
\* and id="src-bg" has to lie before it.
MatchEnd(text, k) ==
    LET gts == {j \in (k + 1)..Len(text) : HasGT(text[j])}
        j   == CHOOSE x \in gts : \A y \in gts : x <= y
    IN  IF OpensImage(text[k]) /\ gts # {}
           /\ \E m \in (k + 1)..(j - 1) : IdSrcBG(text[m])
        THEN j ELSE 0

RECURSIVE ReplaceAllFrom(_, _)
ReplaceAllFrom(text, k) ==
    IF k > Len(text) THEN <<>>
    ELSE IF MatchEnd(text, k) # 0 THEN ReplaceAllFrom(text, MatchEnd(text, k) + 1)
    ELSE <<text[k]>> \o ReplaceAllFrom(text, k + 1)

\* srcBGPat.ReplaceAll(b, nil)
ReplaceAll(text) == ReplaceAllFrom(text, 1)

\* Save is about to strip the document of page 0, the one annotated page.
InitStrip ==
    /\ pageCount = 1
    /\ tmpDir = StagingDir
    /\ path = Join(StagingDir, "src.pdf")
    /\ \E doc \in Docs :
          fs = [f \in {InputPath, StagingDir, Join(StagingDir, "src.pdf"),
                       Join(StagingDir, "annot-0.svg")} |->
                  IF f = StagingDir THEN Dir
                  ELSE IF f = Join(StagingDir, "annot-0.svg") THEN File(doc, 1)
                  ELSE File(InputPdf(1), 0)]
    /\ frame = NoFrame
    /\ mu = Free
    /\ bg = BgIdle
    /\ now = 1
    /\ annotated = {0}
    /\ pc = "S_clean"
    /\ page = -1
    /\ i = 0
    /\ savePages = <<0>>
    /\ beforeEditStat = 0
    /\ ret = [NoRet EXCEPT !.op = "Save"]
    /\ calls = <<>>
    /\ entry = [fs |-> fs, annotated |-> {0}]

\* b, err := ioutil.ReadFile(annotPath); b = srcBGPat.ReplaceAll(b, nil):
\* the bytes that are written to annotPath + ".cleaned.svg".
SaveCleanText ==
    /\ pc = "S_clean"
    /\ Exists(fs, annotPath(i))
    /\ frame' = [frame EXCEPT !.out = ReplaceAll(Marshal(fs[annotPath(i)].data))]
    /\ pc' = "S_export"
    /\ UNCHANGED <<fs, now, session, annotated, locals, ret, calls, entry, mu, bg>>

SpecStrip == InitStrip /\ [][SaveCleanText]_vars

\* The open session on a file system whose rename can fail.
NextIO ==
    \/ \E p \in PageArgs : ThumbnailCall(p)
    \/ ThumbnailStat
    \/ ThumbnailTool
    \/ ThumbnailRename
    \/ ThumbnailRenameFails
    \/ \E p \in PageArgs : AnnotateCall(p)
    \/ AnnotateStatSrc
    \/ AnnotateExport
    \/ AnnotateRenameSrc
    \/ AnnotateStatAnnot
    \/ AnnotateParse
    \/ AnnotateCreate
    \/ AnnotateRenameAnnot
    \/ AnnotateStatBefore
    \/ AnnotateEdit
    \/ AnnotateStatAfter
    \/ AnnotateRemoveThumb
    \/ AnnotateMark
    \/ \E p \in PageArgs : ClearCall(p)
    \/ ClearRemoveAnnot
    \/ ClearRemoveThumb
    \/ ClearUnmark

SpecIO == Init /\ [][NextIO]_vars

NextLife ==
    \/ NewPages
    \/ NewAtoi
    \/ NewTempDir
    \/ NewCopy
    \/ NewReturn
    \/ InputChanges
    \/ CloseCall
    \/ CloseReadDir
    \/ CloseRemove
    \/ CloseRemoveDir
    \/ CloseNil
    \/ CloseFields
    \/ \E p \in PageArgs : ThumbnailCall(p)
    \/ ThumbnailStat
    \/ ThumbnailTool
    \/ ThumbnailRename
    \/ \E p \in PageArgs : IsAnnotatedCall(p)
    \/ IsAnnotatedRead
    \/ HasAnnotationsCall
    \/ HasAnnotationsRead
    \/ \E p \in PageArgs : AnnotateCall(p)
    \/ AnnotateStatSrc
    \/ AnnotateExport
    \/ AnnotateRenameSrc
    \/ AnnotateStatAnnot
    \/ AnnotateParse
    \/ AnnotateCreate
    \/ AnnotateRenameAnnot
    \/ AnnotateStatBefore
    \/ AnnotateEdit
    \/ AnnotateStatAfter
    \/ AnnotateRemoveThumb
    \/ AnnotateMark
    \/ \E p \in PageArgs : ClearCall(p)
    \/ ClearRemoveAnnot
    \/ ClearRemoveThumb
    \/ ClearUnmark
    \/ SaveCall
    \/ SaveCheck
    \/ SaveFastCopy
    \/ SaveLoop
    \/ SaveClean
    \/ SaveExport
    \/ SaveMerge
    \/ SaveOverlay
    \/ SaveCopy

SpecLife == InitNew /\ [][NextLife]_vars

\* Annotate and Clear on one goroutine, IsAnnotated and HasAnnotations on
\* another.
NextMu ==
    \/ \E p \in PageArgs : AnnotateCall(p)
    \/ AnnotateStatSrc
    \/ AnnotateExport
    \/ AnnotateRenameSrc
    \/ AnnotateStatAnnot
    \/ AnnotateParse
    \/ AnnotateCreate
    \/ AnnotateRenameAnnot
    \/ AnnotateStatBefore
    \/ AnnotateEdit
    \/ AnnotateStatAfter
    \/ AnnotateRemoveThumb
    \/ AnnotateMark
    \/ \E p \in PageArgs : ClearCall(p)
    \/ ClearRemoveAnnot
    \/ ClearRemoveThumb
    \/ ClearUnmark
    \/ BgCall
    \/ BgLock
    \/ BgRead
    \/ BgReadEnd
    \/ BgUnlock

SpecMu == Init /\ [][NextMu]_vars

-----------------------------------------------------------------------------
(* The desktop front end's thumbnail loader.  open starts loadThumbs on a   *)
(* goroutine of its own with a cancellable context; closeFile, on the user  *)
(* interface's thread, cancels the context and closes the session.  Both   *)
(* call the session under the mutex sessMu, so one call of the session runs *)
(* at a time.  bg holds the loader's position (pc, page), the context       *)
(* (done), sessMu, closeFile's position (ui), the number of page images     *)
(* (cnt), the pages whose image was set from a thumbnail (seen) and what    *)
(* the loader handed to the user interface, page by page (shown); the      *)
(* length of the global pageImages (images), which session the global sess *)
(* is (gen: 1 the document the loader was started for, 0 nil) and how many *)
(* times open has run (opens).  Of the window it holds whether it is       *)
(* sensitive (sens), the visible child of the main stack (view), whether   *)
(* the page widgets are there (widgets), the pages whose label is marked   *)
(* (labels) and annotSinceLastSave (dirty); ann is the goroutine of an     *)
(* annotate request with its callback, upage the page of the handler that  *)
(* runs on the user interface's thread.  Two fields are history: unsaved,  *)
(* an Annotate returned changed = true since the document was opened or    *)
(* last saved; asked, the running closeFile was confirmed by the user.     *)

Loading == bg.op = "loadThumbs"

\* No annotate request is on its way.
NoAnn == [pc |-> "none", page |-> -1, changed |-> FALSE, err |-> "nil"]

\* The end of open: the page widgets are there, ctx, cancelLoad =
\* context.WithCancel(...); go loadThumbs(ctx, ...); the pages view is shown
\* and the window is sensitive again.
OpenLoad ==
    /\ bg = BgIdle
    /\ pc = "idle"
    /\ bg' = [pc |-> "for", op |-> "loadThumbs", page |-> 0, seen |-> {},
              val |-> "", done |-> FALSE, sessMu |-> Free, ui |-> "idle",
              cnt |-> pageCount, shown |-> <<>>, images |-> pageCount,
              gen |-> 1, opens |-> 1,
              sens |-> TRUE, view |-> "pages", widgets |-> TRUE,
              labels |-> {}, dirty |-> FALSE, ann |-> NoAnn, upage |-> -1,
              unsaved |-> FALSE, asked |-> FALSE]
    /\ UNCHANGED <<fs, now, session, annotated, pc, locals, ret, calls, entry,
                   frame, mu>>

\* The placeholder image.
noThumbPix == "no-thumb"

\* Variant: the loop does not look at the context.
LoadSelectIgnoresDone ==
    /\ Loading /\ bg.pc = "for"
    /\ bg' = [bg EXCEPT !.pc = IF bg.page >= bg.cnt THEN "returned" ELSE "lock"]
    /\ UNCHANGED <<fs, now, session, annotated, pc, locals, ret, calls, entry,
                   frame, mu>>

\* for i := 0; i < cnt; i++ { select { case <-ctx.Done(): return; default: }
LoadSelect ==
    /\ Loading /\ bg.pc = "for"
    /\ bg' = [bg EXCEPT !.pc = IF bg.page >= bg.cnt \/ bg.done
                                THEN "returned" ELSE "lock"]
    /\ UNCHANGED <<fs, now, session, annotated, pc, locals, ret, calls, entry,
                   frame, mu>>

\* loadThumb(i): sessMu.Lock()
LoadLock ==
    /\ Loading /\ bg.pc = "lock"
    /\ bg.sessMu = Free
    /\ bg' = [bg EXCEPT !.pc = "check", !.sessMu = "loader"]
    /\ UNCHANGED <<fs, now, session, annotated, pc, locals, ret, calls, entry,
                   frame, mu>>

\* Variant: the closure does not test whether the session is closed.
LoadCheckSkipsIsClosed ==
    /\ Loading /\ bg.pc = "check"
    /\ bg' = [bg EXCEPT !.pc = "call"]
    /\ UNCHANGED <<fs, now, session, annotated, pc, locals, ret, calls, entry,
                   frame, mu>>

\* if sess == nil || sess.IsClosed() { return "", errors.New(...) }, with
\* the deferred sessMu.Unlock()
LoadCheck ==
    /\ Loading /\ bg.pc = "check"
    /\ bg' = IF IsClosed
             THEN [bg EXCEPT !.pc = "show", !.val = "err", !.sessMu = Free]
             ELSE [bg EXCEPT !.pc = "call"]
    /\ UNCHANGED <<fs, now, session, annotated, pc, locals, ret, calls, entry,
                   frame, mu>>

\* return sess.Thumbnail(p): the call
LoadThumbnail ==
    /\ Loading /\ bg.pc = "call"
    /\ ~(ret.op = "Thumbnail" /\ ret.page = bg.page)
    /\ ThumbnailCall(bg.page)

\* sess.Thumbnail(p) has returned; the deferred sessMu.Unlock()
LoadThumbnailReturn ==
    /\ Loading /\ bg.pc = "call"
    /\ pc = "idle" /\ ret.op = "Thumbnail" /\ ret.page = bg.page
    /\ bg' = [bg EXCEPT !.pc = "show", !.sessMu = Free,
                        !.val = IF ret.err = "nil" THEN ret.val ELSE "err"]
    /\ UNCHANGED <<fs, now, session, annotated, pc, locals, ret, calls, entry,
                   frame, mu>>

\* Variant: the loop ends at the first error.
LoadShowStopsAtError ==
    /\ Loading /\ bg.pc = "show"
    /\ bg' = [bg EXCEPT !.pc = IF bg.val = "err" THEN "returned" ELSE "for",
                        !.page = bg.page + 1, !.val = "",
                        !.seen = IF bg.val # "err" THEN bg.seen \cup {bg.page}
                                 ELSE bg.seen,
                        !.shown = Append(bg.shown,
                                     [page |-> bg.page,
                                      img |-> IF bg.val # "err" THEN bg.val
                                              ELSE noThumbPix])]
    /\ UNCHANGED <<fs, now, session, annotated, pc, locals, ret, calls, entry,
                   frame, mu>>

\* The image of the page, pageImages[i], is set from the file, or to the
\* placeholder after an error; the loop goes on to the next page.  An index
\* outside pageImages stops the program.
LoadShow ==
    /\ Loading /\ bg.pc = "show"
    /\ bg' = [bg EXCEPT !.pc = IF bg.page < bg.images THEN "for" ELSE "panic",
                        !.page = bg.page + 1, !.val = "",
                        !.seen = IF bg.val # "err" THEN bg.seen \cup {bg.page}
                                 ELSE bg.seen,
                        !.shown = Append(bg.shown,
                                     [page |-> bg.page,
                                      img |-> IF bg.val # "err" THEN bg.val
                                              ELSE noThumbPix])]
    /\ UNCHANGED <<fs, now, session, annotated, pc, locals, ret, calls, entry,
                   frame, mu>>

\* closeFile, from the close button, a drop or the window's delete-event,
\* which a window that is not sensitive receives as well: sessMu.Lock();
\* if sess == nil || sess.IsClosed() { return true }; sessMu.Unlock();
\* if annotSinceLastSave, the dialog is shown.
CloseFileCheck ==
    /\ Loading /\ bg.ui = "idle"
    /\ bg.pc # "panic" /\ pc # "panic"
    /\ bg.sessMu = Free
    /\ ~IsClosed
    /\ bg' = [bg EXCEPT !.ui = IF bg.dirty THEN "confirm" ELSE "lock",
                        !.asked = FALSE]
    /\ UNCHANGED <<fs, now, session, annotated, pc, locals, ret, calls, entry,
                   frame, mu>>

\* "Your changes will be lost!": the user closes anyway or keeps editing.
CloseFileConfirm ==
    /\ Loading /\ bg.ui = "confirm"
    /\ \E ok \in BOOLEAN :
          bg' = [bg EXCEPT !.ui = IF ok THEN "lock" ELSE "idle", !.asked = ok]
    /\ UNCHANGED <<fs, now, session, annotated, pc, locals, ret, calls, entry,
                   frame, mu>>

\* The page widgets are removed, annotSinceLastSave = false,
\* resetUIToStart(); sessMu.Lock(); if sess != nil {
CloseFileLock ==
    /\ Loading /\ bg.ui = "lock"
    /\ bg.sessMu = Free
    /\ bg' = [bg EXCEPT !.ui = "cancel", !.sessMu = "ui",
                        !.widgets = FALSE, !.dirty = FALSE, !.view = "splash"]
    /\ UNCHANGED <<fs, now, session, annotated, pc, locals, ret, calls, entry,
                   frame, mu>>

\* cancelLoad()
CloseFileCancel ==
    /\ Loading /\ bg.ui = "cancel"
    /\ bg' = [bg EXCEPT !.ui = "close", !.done = TRUE]
    /\ UNCHANGED <<fs, now, session, annotated, pc, locals, ret, calls, entry,
                   frame, mu>>

\* sess.Close(): the call
CloseFileClose ==
    /\ Loading /\ bg.ui = "close"
    /\ ret.op # "Close"
    /\ CloseCall

\* sess.Close() has returned; sessMu.Unlock(); return true
CloseFileUnlock ==
    /\ Loading /\ bg.ui = "close"
    /\ pc = "idle" /\ ret.op = "Close"
    /\ bg' = [bg EXCEPT !.ui = "idle", !.sessMu = Free]
    /\ UNCHANGED <<fs, now, session, annotated, pc, locals, ret, calls, entry,
                   frame, mu>>

\* The steps that are taken once they can be: those of the loader, of the
\* session's calls and of a closeFile past its first check.
LoadRuns ==
    \/ LoadSelect
    \/ LoadLock
    \/ LoadCheck
    \/ LoadThumbnail
    \/ LoadThumbnailReturn
    \/ LoadShow
    \/ ThumbnailStat
    \/ ThumbnailTool
    \/ ThumbnailRename
    \/ CloseFileLock
    \/ CloseFileCancel
    \/ CloseFileClose
    \/ CloseFileUnlock
    \/ CloseReadDir
    \/ CloseRemove
    \/ CloseRemoveDir
    \/ CloseNil
    \/ CloseFields

NextLoad ==
    \/ OpenLoad
    \/ CloseFileCheck
    \/ LoadRuns

\* The Go scheduler runs every goroutine that can run, and the tools
\* terminate.
SpecLoad == Init /\ [][NextLoad]_vars /\ WF_vars(LoadRuns)

-----------------------------------------------------------------------------
(* The handlers of the front end on an open document: a click on a page's  *)
(* image (annotate), a click on its label (IsAnnotated, clearAnnotation),  *)
(* the save button (save) and closeFile.  Handlers run one at a time on    *)
(* the user interface's thread; a handler that needs sessMu waits for it.  *)
(* annotate calls the session on a goroutine of its own and hands the      *)
(* result to the thread with glib.IdleAdd; idle callbacks run when the     *)
(* thread is in a main loop, that of the window or that of a dialog.       *)

\* The user interface's thread is in a main loop.
MainLoop == bg.ui \in {"idle", "confirm", "clearDialog"}

\* The program has not been stopped by a panic.
Alive == pc # "panic" /\ bg.pc # "panic"

\* A click reaches the widgets of a page.
Clickable == Loading /\ Alive /\ bg.ui = "idle" /\ bg.sens /\ bg.widgets

\* The front end calls operation op of the session.
GtkCall(op, p, first) ==
    /\ Enter(op, p, first)
    /\ UNCHANGED <<fs, now, session, annotated, frame, mu>>

\* Variant: the window stays sensitive.
ClickImageStaysSensitive ==
    /\ Clickable /\ bg.view = "pages"
    /\ bg.ann.pc = "none"
    /\ \E p \in 0..(bg.images - 1) :
          bg' = [bg EXCEPT !.view = "continue-in-inkscape",
                           !.ann = [NoAnn EXCEPT !.pc = "lock", !.page = p]]
    /\ UNCHANGED <<fs, now, session, annotated, pc, locals, ret, calls, entry,
                   frame, mu>>

\* annotate(page): mainWin.SetSensitive(false), the stack shows
\* "continue-in-inkscape", go func() { ... }
ClickImage ==
    /\ Clickable /\ bg.view = "pages"
    /\ bg.ann.pc = "none"
    /\ \E p \in 0..(bg.images - 1) :
          bg' = [bg EXCEPT !.sens = FALSE, !.view = "continue-in-inkscape",
                           !.ann = [NoAnn EXCEPT !.pc = "lock", !.page = p]]
    /\ UNCHANGED <<fs, now, session, annotated, pc, locals, ret, calls, entry,
                   frame, mu>>

\* Variant: Annotate is called without sessMu.
AnnStartUnlocked ==
    /\ Loading /\ bg.ann.pc = "lock"
    /\ Alive
    /\ bg' = [bg EXCEPT !.ann.pc = "running"]
    /\ GtkCall("Annotate", bg.ann.page,
               IF InvalidPage(bg.ann.page) THEN "panic" ELSE "A_statSrc")

\* On the goroutine: sessMu.Lock(); changed, err := sess.Annotate(page)
AnnStart ==
    /\ Loading /\ bg.ann.pc = "lock"
    /\ Alive
    /\ bg.sessMu = Free
    /\ bg' = [bg EXCEPT !.ann.pc = "running", !.sessMu = "annotate"]
    /\ GtkCall("Annotate", bg.ann.page,
               IF InvalidPage(bg.ann.page) THEN "panic" ELSE "A_statSrc")

\* Annotate has returned; sessMu.Unlock(); glib.IdleAdd(func() { ... })
AnnReturn ==
    /\ Loading /\ bg.ann.pc = "running"
    /\ pc = "idle"
    /\ bg' = [bg EXCEPT !.ann.pc = "posted", !.sessMu = Free,
                        !.ann.changed = (ret.val = "true"),
                        !.ann.err = ret.err,
                        !.unsaved = bg.unsaved \/ ret.val = "true"]
    /\ UNCHANGED <<fs, now, session, annotated, pc, locals, ret, calls, entry,
                   frame, mu>>

\* The callback: mainWin.SetSensitive(true), the stack shows "pages"; after
\* an error the message is shown; if changed, annotSinceLastSave = true and
\* the label of the page is marked.
AnnCallback ==
    /\ Loading /\ bg.ann.pc = "posted"
    /\ Alive /\ MainLoop
    /\ LET marks == bg.ann.err = "nil" /\ bg.ann.changed
       IN  bg' = [bg EXCEPT !.ann = NoAnn, !.sens = TRUE, !.view = "pages",
                            !.dirty = bg.dirty \/ marks,
                            !.labels = IF marks THEN bg.labels \cup {bg.ann.page}
                                       ELSE bg.labels]
    /\ UNCHANGED <<fs, now, session, annotated, pc, locals, ret, calls, entry,
                   frame, mu>>

\* A click on the label of a page: sessMu.Lock();
\* annotated := sess.IsAnnotated(page)
ClickLabel ==
    /\ Clickable /\ bg.view = "pages"
    /\ bg.sessMu = Free
    /\ \E p \in 0..(bg.images - 1) :
          /\ bg' = [bg EXCEPT !.ui = "isAnnotated", !.upage = p, !.sessMu = "ui"]
          /\ GtkCall("IsAnnotated", p, IF InvalidPage(p) THEN "panic" ELSE "I_read")

\* IsAnnotated has returned; sessMu.Unlock(); if annotated {
\* clearAnnotation(page) }
LabelReturn ==
    /\ Loading /\ bg.ui = "isAnnotated"
    /\ pc = "idle"
    /\ bg' = [bg EXCEPT !.ui = IF ret.val = "true" THEN "clearDialog" ELSE "idle",
                        !.sessMu = Free]
    /\ UNCHANGED <<fs, now, session, annotated, pc, locals, ret, calls, entry,
                   frame, mu>>

\* clearAnnotation: "Clear page annotations?", Clear or Keep.
ClearDialog ==
    /\ Loading /\ bg.ui = "clearDialog"
    /\ Alive
    /\ \E ok \in BOOLEAN :
          bg' = [bg EXCEPT !.ui = IF ok THEN "clearLock" ELSE "idle"]
    /\ UNCHANGED <<fs, now, session, annotated, pc, locals, ret, calls, entry,
                   frame, mu>>

\* sessMu.Lock(); sess.Clear(page)
ClearStart ==
    /\ Loading /\ bg.ui = "clearLock"
    /\ Alive
    /\ bg.sessMu = Free
    /\ bg' = [bg EXCEPT !.ui = "clear", !.sessMu = "ui"]
    /\ GtkCall("Clear", bg.upage,
               IF InvalidPage(bg.upage) THEN "panic" ELSE "C_rmAnnot")

\* Clear has returned; sessMu.Unlock(); the label is set back to the page
\* number and its mark removed.
ClearFinish ==
    /\ Loading /\ bg.ui = "clear"
    /\ pc = "idle"
    /\ bg' = [bg EXCEPT !.ui = "idle", !.sessMu = Free,
                        !.labels = bg.labels \ {bg.upage}]
    /\ UNCHANGED <<fs, now, session, annotated, pc, locals, ret, calls, entry,
                   frame, mu>>

\* save: the file chooser; the user cancels or picks the path.
ClickSave ==
    /\ Clickable
    /\ \E ok \in BOOLEAN :
          bg' = [bg EXCEPT !.ui = IF ok THEN "saveLock" ELSE "idle"]
    /\ UNCHANGED <<fs, now, session, annotated, pc, locals, ret, calls, entry,
                   frame, mu>>

\* sessMu.Lock(); err = sess.Save(path)
SaveStart ==
    /\ Loading /\ bg.ui = "saveLock"
    /\ Alive
    /\ bg.sessMu = Free
    /\ bg' = [bg EXCEPT !.ui = "save", !.sessMu = "ui"]
    /\ GtkCall("Save", -1, "S_check")

\* Save has returned; sessMu.Unlock(); after an error the message is shown
\* and save returns; otherwise annotSinceLastSave = false.
SaveFinish ==
    /\ Loading /\ bg.ui = "save"
    /\ pc = "idle"
    /\ bg' = [bg EXCEPT !.ui = "idle", !.sessMu = Free,
                        !.dirty = bg.dirty /\ ret.err # "nil",
                        !.unsaved = bg.unsaved /\ ret.err # "nil"]
    /\ UNCHANGED <<fs, now, session, annotated, pc, locals, ret, calls, entry,
                   frame, mu>>

\* The steps of the goroutines, of the session's calls and of handlers past
\* their first step.
GtkRuns ==
    \/ LoadRuns
    \/ AnnStart
    \/ AnnotateStatSrc
    \/ AnnotateExport
    \/ AnnotateRenameSrc
    \/ AnnotateStatAnnot
    \/ AnnotateParse
    \/ AnnotateCreate
    \/ AnnotateRenameAnnot
    \/ AnnotateStatBefore
    \/ AnnotateEdit
    \/ AnnotateStatAfter
    \/ AnnotateRemoveThumb
    \/ AnnotateMark
    \/ AnnReturn
    \/ AnnCallback
    \/ IsAnnotatedRead
    \/ LabelReturn
    \/ ClearStart
    \/ ClearRemoveAnnot
    \/ ClearRemoveThumb
    \/ ClearUnmark
    \/ ClearFinish
    \/ SaveStart
    \/ SaveCheck
    \/ SaveFastCopy
    \/ SaveLoop
    \/ SaveClean
    \/ SaveExport
    \/ SaveMerge
    \/ SaveOverlay
    \/ SaveCopy
    \/ SaveFinish

NextGtk ==
    \/ OpenLoad
    \/ ClickImage
    \/ ClickLabel
    \/ ClearDialog
    \/ ClickSave
    \/ CloseFileCheck
    \/ CloseFileConfirm
    \/ GtkRuns

\* A document of one page is open.
InitGtk == Init /\ pageCount = 1

\* The Go scheduler runs every goroutine that can run, the tools and the
\* editor terminate, and the thread of the user interface runs its handlers
\* and idle callbacks.
SpecGtk == InitGtk /\ [][NextGtk]_vars /\ WF_vars(GtkRuns)

-----------------------------------------------------------------------------
(* Opening a document after the first was closed, while the loader of the  *)
(* first is still on its way.  The path handed to New is the same; what is *)
(* stored under it may have become another document (InputChanges).  The   *)
(* loader that open starts for the new document takes no step here.        *)

\* How many times open runs.
MaxOpens == 2

\* open: sessMu.Lock()
OpenLock ==
    /\ Loading /\ bg.ui = "idle"
    /\ bg.pc # "panic"
    /\ IsClosed
    /\ bg.opens < MaxOpens
    /\ bg.sessMu = Free
    /\ bg' = [bg EXCEPT !.ui = "new", !.sessMu = "ui"]
    /\ UNCHANGED <<fs, now, session, annotated, pc, locals, ret, calls, entry,
                   frame, mu>>

\* sess, err = session.New(path): the call
OpenNew ==
    /\ Loading /\ bg.ui = "new"
    /\ pc \in {"idle", "nosession"}
    /\ bg' = [bg EXCEPT !.ui = "inNew"]
    /\ pc' = "N_pages"
    /\ ret' = [NoRet EXCEPT !.op = "New"]
    /\ calls' = <<>>
    /\ entry' = Snapshot
    /\ frame' = NoFrame
    /\ UNCHANGED <<fs, now, session, annotated, locals, mu>>

\* session.New has returned and sess is assigned; sessMu.Unlock().  After an
\* error sess is nil and open returns; otherwise pageImages is made anew
\* with the new session's page count, and a loader is started.
OpenReturn ==
    /\ Loading /\ bg.ui = "inNew"
    /\ pc \in {"idle", "nosession"}
    /\ bg' = [bg EXCEPT !.ui = "idle", !.sessMu = Free,
                        !.opens = bg.opens + 1,
                        !.gen = IF ret.err = "nil" THEN bg.opens + 1 ELSE 0,
                        !.images = IF ret.err = "nil" THEN pageCount
                                   ELSE bg.images]
    /\ UNCHANGED <<fs, now, session, annotated, pc, locals, ret, calls, entry,
                   frame, mu>>

NextReopen ==
    \/ NextLoad
    \/ InputChanges
    \/ OpenLock
    \/ OpenNew
    \/ NewPages
    \/ NewAtoi
    \/ NewTempDir
    \/ NewCopy
    \/ NewReturn
    \/ OpenReturn

SpecReopen == Init /\ [][NextReopen]_vars

\* One Save on one goroutine, Annotate and Clear on another.
NextSave ==
    \/ SaveOnce
    \/ SaveCheck
    \/ SaveFastCopy
    \/ SaveLoop
    \/ SaveClean
    \/ SaveExport
    \/ SaveMerge
    \/ SaveOverlay
    \/ SaveCopy
    \/ WrCall
    \/ WrAnnotateStage
    \/ WrAnnotateEdit
    \/ WrAnnotateMark
    \/ WrClearRemove
    \/ WrClearUnmark

SpecSave == Init /\ [][NextSave]_vars

-----------------------------------------------------------------------------
(* Properties *)

Pages == 0..(pageCount - 1)

\* Operation op has returned and no other has begun.
After(op) == pc = "idle" /\ ret.op = op

\* The last tool the current operation ran, if it ran one.
LastCall == calls[Len(calls)]
Ran(tool) == calls # <<>> /\ LastCall.tool = tool

\* Whether file f is the same now as when the operation began.
SameFile(f) ==
    /\ Exists(fs, f) <=> Exists(entry.fs, f)
    /\ Exists(fs, f) => fs[f] = entry.fs[f]

RECURSIVE Ascending(_)
\* The elements of a set of pages, smallest first.
Ascending(S) ==
    IF S = {} THEN <<>>
    ELSE LET m == CHOOSE x \in S : \A y \in S : x <= y
         IN  <<m>> \o Ascending(S \ {m})

RECURSIVE PageList(_)
\* The one-based, comma-separated, ascending list of a set of pages.
PageList(S) ==
    IF S = {} THEN ""
    ELSE LET m == CHOOSE x \in S : \A y \in S : x <= y
         IN  IF S = {m} THEN ToString(m + 1)
             ELSE ToString(m + 1) \o "," \o PageList(S \ {m})

C2_MergeAndOverlayFollowAnnotatedSet ==
    LET A == entry.annotated
        n == Cardinality(A)
        asc == Ascending(A)
        merge == calls[n + 1]
    IN  /\ (ret.op = "Save" /\ Len(calls) > n /\ A # {}) =>
              /\ merge.tool = "qpdf-merge"
              /\ merge.args = [k \in 1..n |-> annotPath(asc[k]) \o ".pdf"]
                                 \o <<"--", overlayPath>>
              /\ \A k \in 1..n :
                    /\ calls[k].tool = "inkscape-export-pdf"
                    /\ calls[k].args[1] = merge.args[k]
                    /\ Len(fs[merge.args[k]].data) = 1
        /\ (ret.op = "Save" /\ Ran("qpdf-overlay")) =>
              /\ A # {}
              /\ Len(calls) = n + 2
              /\ LastCall.args[5] = PageList(A)
              /\ ParsePageRange(LastCall.args[5], pageCount)
                    = [k \in 1..n |-> asc[k] + 1]
              /\ (A = {1} => LastCall.args[5] = "2")
              /\ pageRange(<<0, 2, 4>>) = "1,3,5"

\* C2 witness: only the second page is annotated and the overlay ran with
\* the page list "2".
C2_Witness ==
    /\ ret.op = "Save" /\ Ran("qpdf-overlay") /\ LastCall.ok
    /\ entry.annotated = {1}
    /\ LastCall.args[5] = "2"
    /\ calls[1].args[1] = annotPath(1) \o ".pdf"

\* C3: on Save's general path the destination is as it was until the copy
\* that ends the operation; a Save that returns an error leaves it as it
\* was, and one that returns nil ran the overlay successfully and copied
\* its output.
C3_DestinationWrittenLast ==
    (ret.op = "Save" /\ entry.annotated # {}) =>
        /\ pc # "idle" => SameFile(DestPath)
        /\ (pc = "idle" /\ ret.err # "nil") => SameFile(DestPath)
        /\ (pc = "idle" /\ ret.err = "nil") =>
              /\ Ran("qpdf-overlay") /\ LastCall.ok
              /\ Exists(fs, DestPath)
              /\ fs[DestPath].data = fs[finalPath].data

\* C3 witness: the merge succeeded, the overlay failed, Save returned the
\* error and there is no destination file.
C3_Witness ==
    /\ After("Save") /\ entry.annotated # {}
    /\ Ran("qpdf-overlay") /\ ~LastCall.ok
    /\ ret.err # "nil"
    /\ Exists(fs, overlayPath)
    /\ ~Exists(fs, DestPath)

\* Annotate has returned after running the editor.
AfterEdit == After("Annotate") /\ Ran("inkscape")

\* The annotation document's modification time is the one recorded before
\* the editor was launched.
SameModTime == fs[annotPath(page)].mtime = beforeEditStat

\* Annotate left the annotated set and the page's thumbnail as they were.
NotMarked == annotated = entry.annotated /\ SameFile(thumbPath(page))

\* C4 as stated: an unchanged modification time gives (false, nil) and
\* leaves the page unmarked and its thumbnail in place.
C4_Original ==
    (AfterEdit /\ SameModTime) =>
        /\ ret.val = "false" /\ ret.err = "nil"
        /\ NotMarked

\* C4 amended: the same, when the editor exited without failure.
C4_UnchangedModTimeNotAnnotated ==
    (AfterEdit /\ LastCall.ok /\ SameModTime) =>
        /\ ret.val = "false" /\ ret.err = "nil"
        /\ NotMarked
        /\ (page \notin entry.annotated => ~IsAnnotated(page))

\* C4 witness: the editor exited normally, the time is unchanged, the page
\* had a thumbnail and was not annotated, and both are still so.
C4_Witness ==
    /\ AfterEdit /\ LastCall.ok /\ SameModTime
    /\ ret.val = "false" /\ ret.err = "nil"
    /\ Exists(fs, thumbPath(page))
    /\ ~IsAnnotated(page)

C7_ClearResets ==
    /\ (After("Clear") /\ page \in entry.annotated) =>
          /\ ~IsAnnotated(page)
          /\ ~Exists(fs, annotPath(page))
          /\ ~Exists(fs, thumbPath(page))
    /\ (ret.op = "Annotate" /\ pc = "A_edit"
            /\ ~Exists(entry.fs, annotPath(page))) =>
          /\ fs[annotPath(page)] = File(<<BgElem(srcPath(page))>>, now)
          /\ Exists(fs, srcPath(page))

\* C7 witness: the editor is about to open a page whose exported PDF of an
\* earlier Save is still there (the page was annotated then) and whose
\* annotation document was gone when Annotate began (it was cleared since).
C7_Witness ==
    /\ ret.op = "Annotate" /\ pc = "A_edit"
    /\ ~Exists(entry.fs, annotPath(page))
    /\ Exists(fs, annotPath(page) \o ".pdf")
    /\ fs[annotPath(page)].data = <<BgElem(srcPath(page))>>

\* C8 as stated: Clear of a page that is not annotated leaves the annotated
\* set and every file as they were.
C8_Original ==
    (After("Clear") /\ page \notin entry.annotated) =>
        /\ annotated = entry.annotated
        /\ fs = entry.fs

\* C8 amended: Clear of a page that is not annotated leaves the annotated
\* set as it was and changes no file but the page's annotation document and
\* thumbnail, which it deletes; where neither exists it changes nothing, so
\* a second Clear changes nothing.
C8_ClearOfUnannotatedPage ==
    (After("Clear") /\ page \notin entry.annotated) =>
        /\ annotated = entry.annotated
        /\ fs = Remove(Remove(entry.fs, annotPath(page)), thumbPath(page))
        /\ ~Exists(fs, annotPath(page)) /\ ~Exists(fs, thumbPath(page))
        /\ (~Exists(entry.fs, annotPath(page)) /\ ~Exists(entry.fs, thumbPath(page)))
              => fs = entry.fs

\* C8 witness: the cleared page was not annotated and had an annotation
\* document, while another page is annotated.
C8_Witness ==
    /\ After("Clear") /\ page \notin entry.annotated
    /\ Exists(entry.fs, annotPath(page))
    /\ annotated # {}

\* C9: every annotated page has an annotation document, in every state.
C9_AnnotatedPagesHaveDocument ==
    \A p \in annotated : Exists(fs, annotPath(p))

\* The user never saved page p's annotation document: it is the template.
NeverSaved(p) ==
    /\ Exists(fs, annotPath(p))
    /\ fs[annotPath(p)].data = <<BgElem(srcPath(p))>>

\* C10: a page whose annotation document was never saved by the user is
\* not annotated, is not what makes HasAnnotations true, and is neither
\* exported, merged nor listed by Save.
C10_UnmodifiedDocumentNotAnnotated ==
    \A p \in Pages : NeverSaved(p) =>
        /\ ~IsAnnotated(p)
        /\ (After("IsAnnotated") /\ page = p) => ret.val = "false"
        /\ (After("HasAnnotations") /\ ret.val = "true") =>
              \E q \in Pages \ {p} : IsAnnotated(q)
        /\ ret.op = "Save" =>
              /\ \A k \in 1..Len(savePages) : savePages[k] # p
              /\ \A k \in 1..Len(calls) :
                    /\ \A a \in 1..Len(calls[k].args) :
                          /\ calls[k].args[a] # annotPath(p) \o ".pdf"
                          /\ calls[k].args[a] # annotPath(p) \o ".cleaned.svg"
                    /\ calls[k].tool = "qpdf-overlay" =>
                          \A j \in 1..Len(ParsePageRange(calls[k].args[5], pageCount)) :
                              ParsePageRange(calls[k].args[5], pageCount)[j] # p + 1

\* C10 witness: Save composed the document from the second page alone while
\* the first page has an annotation document the user never saved.
C10_Witness ==
    /\ After("Save") /\ ret.err = "nil"
    /\ annotated = {1}
    /\ NeverSaved(0)
    /\ Ran("qpdf-overlay") /\ LastCall.args[5] = "2"

\* The operations that take a page argument.
PageOps == {"Thumbnail", "Annotate", "Clear", "IsAnnotated"}

\* C11: an operation called with page < 0 or page >= pageCount panics, and
\* only such a call does; the panic is the first thing the call does, so no
\* file has changed, no tool has run, the annotated set is as it was and
\* nothing is returned.
C11_InvalidPagePanics ==
    /\ [](/\ (ret.op \in PageOps /\ pc # "idle"
                  /\ (page < 0 \/ page >= pageCount)) => pc = "panic"
          /\ pc = "panic" =>
                /\ ret.op \in PageOps
                /\ page < 0 \/ page >= pageCount
                /\ fs = entry.fs /\ annotated = entry.annotated
                /\ calls = <<>>
                /\ ret.val = "" /\ ret.err = "nil")
    /\ [][pc' = "panic" => pc = "idle"]_vars

\* C11 witness: Annotate(pageCount) panicked in a session that has an
\* annotated page.
C11_Witness ==
    /\ pc = "panic" /\ ret.op = "Annotate" /\ page = pageCount
    /\ annotated # {}

C15_SourceRepresentationImmutable ==
    /\ [](\A p \in Pages :
            /\ Exists(fs, srcPath(p)) =>
                  fs[srcPath(p)] = File(InputPdf(pageCount)[p + 1], 0)
            /\ (ret.op = "Annotate" /\ page = p /\ Exists(entry.fs, srcPath(p))) =>
                  \A k \in 1..Len(calls) : calls[k].tool # "inkscape-export-svg")
    /\ [][\A p \in Pages :
            Exists(fs, srcPath(p)) =>
                /\ Exists(fs', srcPath(p))
                /\ fs'[srcPath(p)] = fs[srcPath(p)]]_vars

\* C15 witness: the page was annotated, saved and cleared; the Annotate
\* that follows has made a new annotation document around the source
\* representation it found, without exporting the page.
C15_Witness ==
    /\ ret.op = "Annotate" /\ pc = "A_statBefore"
    /\ Exists(entry.fs, srcPath(page))
    /\ ~Exists(entry.fs, annotPath(page))
    /\ Exists(entry.fs, annotPath(page) \o ".pdf")
    /\ calls = <<>>
    /\ fs[srcPath(page)] = entry.fs[srcPath(page)]

\* An error message that ends with the standard-error text of the tool.
CarriesStderr(e) ==
    \E what \in {"failed to convert page to svg",
                  "inkscape exited with error while editing"} :
        e = what \o ": " \o ExitError.stderr

\* C20: when the page export or the editor exits with failure, Annotate
\* returns (false, err) and err carries the standard-error text of the tool.
C20_ToolFailureCarriesStderr ==
    (After("Annotate") /\ calls # <<>> /\ ~LastCall.ok
        /\ LastCall.tool \in {"inkscape-export-svg", "inkscape"}) =>
        /\ ret.val = "false"
        /\ ret.err # "nil"
        /\ CarriesStderr(ret.err)

\* New has not returned a session (it is running, or it failed).
NoSession == pc \in {"N_pages", "N_atoi", "N_tempdir", "N_copy", "N_return",
                     "nosession"}

\* C16: New ends either with a session and a nil error -- the staging
\* directory and the private copy exist, the fields are set, no page is
\* annotated -- or with no session and an error; it ends with the error
\* when the page-count tool exited with failure or printed no number, when
\* the staging directory was not created and when the copy failed.
C16_NewAllOrNothing ==
    /\ pc = "nosession" =>
          /\ ret.op = "New" /\ ret.val = "nil" /\ ret.err # "nil"
          /\ path = "" /\ tmpDir = "" /\ pageCount = 0 /\ annotated = {}
          /\ ret.err \in
                {ExitError.stderr,
                 "cannot convert page count: invalid syntax",
                 "failed to create temp directory: mkdir error",
                 "open " \o InputPath \o ": no such file",
                 "write " \o Join(StagingDir, "src.pdf") \o ": i/o error"}
    /\ (ret.op = "New" /\ pc = "idle") =>
          /\ ret.val = "session" /\ ret.err = "nil"
          /\ tmpDir = StagingDir /\ Exists(fs, tmpDir)
          /\ path = Join(tmpDir, "src.pdf") /\ Exists(fs, path)
          /\ fs[path].data # Truncated
          /\ pageCount = frame.p
          /\ annotated = {}
          /\ calls[1].ok
          /\ \E n \in 0..MaxInputPages + 1 : frame.out = <<Itoa(n), "\n">>
    /\ (ret.op = "New" /\ pc \notin {"N_pages", "N_atoi"}
            /\ (~calls[1].ok \/ frame.out = <<"n/a", "\n">>)) =>
          pc = "nosession"

\* C16 witness: the copy failed after the staging directory was made; New
\* returned no session and an error.
C16_Witness ==
    /\ pc = "nosession" /\ ret.val = "nil"
    /\ Exists(fs, StagingDir)
    /\ ret.err = "write " \o Join(StagingDir, "src.pdf") \o ": i/o error"

\* The operations of a session other than Close.
SessionOps == PageOps \cup {"HasAnnotations", "Save"}

\* C12: an operation called on a closed session does not return normally:
\* it panics or returns an error.
C12_CallsAfterCloseFail ==
    (IsClosed /\ ret.op \in SessionOps /\ pc = "idle") => ret.err # "nil"

\* The file removals Close attempted.
FileRemovals == {k \in 1..Len(calls) : calls[k].tool = "remove-file"}

\* Close has returned; it was called on an open session (it went for the
\* staging directory) and none of its file removals failed.
ClosedCleanly ==
    /\ After("Close")
    /\ LastCall.tool = "remove-dir" /\ LastCall.args = <<StagingDir>>
    /\ \A k \in FileRemovals : calls[k].ok

\* C18: when Close of an open session has returned and none of its file
\* removals failed, no
\* file is left but the user's own (the input and what Save wrote), the
\* staging directory is gone and IsClosed is true; once true it stays true.
C18_CloseRemovesEverything ==
    /\ [](ClosedCleanly =>
            /\ DOMAIN fs \subseteq {InputPath, DestPath}
            /\ IsClosed
            /\ path = "" /\ tmpDir = "" /\ annotated = {})
    /\ [][IsClosed => IsClosed']_vars

\* C18 witness: Close has returned in a session that had staged a thumbnail,
\* an annotation document and the files of a Save; the staging directory is
\* gone.
C18_Witness ==
    /\ ClosedCleanly /\ IsClosed
    /\ Exists(entry.fs, Join(StagingDir, "final.pdf"))
    /\ Exists(entry.fs, Join(StagingDir, "thumb-0.png"))
    /\ Exists(entry.fs, Join(StagingDir, "annot-0.svg"))
    /\ ~Exists(fs, StagingDir)

\* C19: the page count of an open session is positive and is the number
\* New read; PageCount returns it in every state until Close.
C19_PageCountPositiveAndFixed ==
    (~NoSession /\ ~IsClosed) =>
        /\ PageCount > 0
        /\ PageCount = frame.p

\* The input: whether it exists, and what it holds.
InputSame ==
    /\ Exists(fs', InputPath) <=> Exists(fs, InputPath)
    /\ Exists(fs, InputPath) => fs'[InputPath] = fs[InputPath]

\* C17: once New has returned a session, no tool is handed the user's path,
\* no step of an operation changes the user's file, the private copy stays
\* as New made it until Close removes it, and what the operations produce is
\* made from the private copy, whatever has become of the user's file: the
\* thumbnail and the source representation are those of the copy's page and
\* a Save with no page annotated writes the copy's bytes.
C17_OnlyThePrivateCopy ==
    /\ [](~NoSession =>
            /\ ret.op # "New" =>
                  \A k \in 1..Len(calls) : \A a \in 1..Len(calls[k].args) :
                      calls[k].args[a] # InputPath
            /\ (After("Save") /\ entry.annotated = {} /\ ret.err = "nil") =>
                  /\ Exists(entry.fs, Join(StagingDir, "src.pdf"))
                  /\ fs[DestPath].data = entry.fs[Join(StagingDir, "src.pdf")].data
            /\ (After("Thumbnail") /\ ret.err = "nil") =>
                  fs[thumbPath(page)].data =
                      <<Elem("png", fs[path].data[page + 1][1].id, "")>>
            /\ (ret.op = "Annotate" /\ Exists(fs, srcPath(page))) =>
                  fs[srcPath(page)].data = fs[path].data[page + 1])
    /\ [][~NoSession =>
            /\ ~InputSame => UNCHANGED <<now, session, annotated, pc, locals,
                                          ret, calls, entry, rest>>
            /\ (~IsClosed /\ ret.op # "Close" /\ ret'.op # "Close") =>
                  /\ Exists(fs', path)
                  /\ fs'[path] = fs[path]]_vars

\* C17 witness: a Save with no page annotated began after the user's file
\* was deleted and wrote the private copy's bytes to the destination.
C17_Witness ==
    /\ After("Save") /\ entry.annotated = {} /\ ret.err = "nil"
    /\ ~Exists(entry.fs, InputPath)
    /\ Exists(fs, path)
    /\ fs[DestPath].data = fs[path].data

\* C13: the second goroutine is inside its critical section only while it
\* holds the mutex, the map is not written while it holds it, its map
\* access is never cut by a write (the runtime's fatal error does not
\* happen), and the value it reads is that of the map as it was before or
\* as it is after the mutation of the Annotate or Clear under way.
C13_MapAccessUnderMutex ==
    /\ [](/\ bg.pc # "fatal"
          /\ bg.pc \in {"read", "readEnd", "unlock"} <=> mu = "bg")
    /\ [][/\ (mu = "bg" /\ mu' = "bg") => annotated' = annotated
          /\ (bg.pc = "readEnd" /\ bg'.pc = "unlock") =>
                /\ bg'.val = IF bg.op = "IsAnnotated"
                             THEN Bool(bg.page \in annotated)
                             ELSE Bool(annotated # {})
                /\ annotated \in {entry.annotated,
                                  entry.annotated \cup {page},
                                  entry.annotated \ {page}}]_vars

\* C13 witness: Annotate(p) has detected the change and waits for the mutex
\* to mark the page, while IsAnnotated(p) on the other goroutine holds the
\* mutex and has read false, the value from before the mutation.
C13_Witness ==
    /\ ret.op = "Annotate" /\ pc = "A_mark"
    /\ mu = "bg"
    /\ bg.op = "IsAnnotated" /\ bg.page = page
    /\ bg.pc = "unlock" /\ bg.val = "false"

\* The tools Save has run so far, by name.
SaveTools == [k \in 1..Len(calls) |-> calls[k].tool]

\* C22: on Save's general path the tools run in the order export (once per
\* annotated page), merge, overlay, each only after every earlier one
\* exited without failure; a failing tool is the last one run and ends the
\* Save with an error; a failing strip ends it before any further tool;
\* and the destination is written only after the overlay succeeded.
C22_SaveStagesInOrder ==
    (ret.op = "Save" /\ entry.annotated # {}) =>
        LET n == Cardinality(entry.annotated)
        IN  /\ Len(calls) <= n + 2
            /\ \A k \in 1..Len(calls) :
                  /\ SaveTools[k] = IF k <= n THEN "inkscape-export-pdf"
                                    ELSE IF k = n + 1 THEN "qpdf-merge"
                                    ELSE "qpdf-overlay"
                  /\ k < Len(calls) => calls[k].ok
                  /\ ~calls[k].ok =>
                        /\ pc = "idle" /\ ret.err # "nil"
                        /\ SameFile(DestPath)
            /\ pc = "S_merge" => (Len(calls) = n /\ Len(savePages) = n)
            /\ pc = "S_overlay" => Len(calls) = n + 1
            /\ pc = "S_copy" => (Len(calls) = n + 2 /\ LastCall.ok)
            /\ (pc = "idle" /\ ret.err \in {"failed to read back: read error",
                                             "failed to write back: write error"}) =>
                  /\ Len(calls) < n
                  /\ SameFile(DestPath)
            /\ ~SameFile(DestPath) =>
                  (pc = "idle" /\ Len(calls) = n + 2 /\ LastCall.ok)

\* C22 witness: Save ran two exports, the merge and the overlay, and wrote
\* the destination.
C22_Witness ==
    /\ After("Save") /\ ret.err = "nil"
    /\ SaveTools = <<"inkscape-export-pdf", "inkscape-export-pdf",
                     "qpdf-merge", "qpdf-overlay">>
    /\ ~SameFile(DestPath)

\* C24: while Save runs and after it, the annotated set, the private copy
\* and every annotation document are as they were when it began; the
\* documents of the annotated pages still hold their locked background.
C24_SaveLeavesSessionAlone ==
    ret.op = "Save" =>
        /\ annotated = entry.annotated
        /\ SameFile(path)
        /\ \A p \in Pages :
              /\ SameFile(annotPath(p))
              /\ p \in annotated =>
                    \E k \in 1..Len(fs[annotPath(p)].data) :
                        srcBGPat(fs[annotPath(p)].data[k])

\* C24 witness: a second Save has composed the same file as the one before
\* it, from the same annotated page and the same private copy.
C24_Witness ==
    /\ After("Save") /\ ret.err = "nil"
    /\ annotated # {}
    /\ Exists(entry.fs, finalPath)
    /\ fs[finalPath] = entry.fs[finalPath]
    /\ fs[DestPath].data = entry.fs[DestPath].data

\* The files of page p that Annotate(p) itself stages.
OwnFiles(p) == {srcPath(p), srcPath(p) \o ".svg", annotPath(p), annotPath(p) \o ".tmp"}

\* C25: the editor is launched only when the source representation and
\* the annotation document of the page both exist and the recorded
\* modification time is the one the document has at that moment; before the
\* launch no editor has run in this call; the second stat and everything
\* after it happen only once the editor has exited.
C25_EditorBetweenTheTwoStats ==
    ret.op = "Annotate" =>
        /\ pc = "A_edit" =>
              /\ Exists(fs, srcPath(page))
              /\ Exists(fs, annotPath(page))
              /\ beforeEditStat = fs[annotPath(page)].mtime
        /\ pc \in {"A_statSrc", "A_export", "A_renameSrc", "A_statAnnot", "A_parse",
                   "A_create", "A_renameAnnot", "A_statBefore", "A_edit"} =>
              \A k \in 1..Len(calls) : calls[k].tool # "inkscape"
        /\ pc \in {"A_statAfter", "A_rmThumb", "A_mark"} =>
              (Ran("inkscape") /\ LastCall.ok)

\* C25 witness: the editor has exited and the document it was given, created
\* by this call, now carries a later modification time than the recorded one.
C25_Witness ==
    /\ ret.op = "Annotate" /\ pc = "A_statAfter"
    /\ ~Exists(entry.fs, annotPath(page))
    /\ fs[annotPath(page)].mtime # beforeEditStat

\* C26: after an Annotate(p) that returned an error the annotated set is
\* the one before the call, the thumbnail of p is as before the call, and
\* so is every file that is not p's own source representation or document.
C26_FailedAnnotateLeavesOthersAlone ==
    (After("Annotate") /\ ret.err # "nil") =>
        /\ ret.val = "false"
        /\ annotated = entry.annotated
        /\ SameFile(thumbPath(page))
        /\ \A f \in (DOMAIN fs \cup DOMAIN entry.fs) \ OwnFiles(page) : SameFile(f)

\* C26 witness: the editor of a page that has a thumbnail exited with
\* failure after the user saved, while another page is annotated and has a
\* thumbnail.
C26_Witness ==
    /\ After("Annotate") /\ ret.err # "nil"
    /\ Ran("inkscape")
    /\ ~SameFile(annotPath(page))
    /\ Exists(fs, thumbPath(page))
    /\ \E q \in Pages \ {page} : q \in annotated /\ Exists(fs, thumbPath(q))

\* C27: a page that has an annotation document has a source representation.
C27_DocumentHasSource ==
    \A p \in Pages : Exists(fs, annotPath(p)) => Exists(fs, srcPath(p))

\* C27 witness: Clear removed the document of one page and kept its source
\* representation, while another page has both.
C27_Witness ==
    /\ After("Clear")
    /\ Exists(entry.fs, annotPath(page))
    /\ ~Exists(fs, annotPath(page)) /\ Exists(fs, srcPath(page))
    /\ \E q \in Pages \ {page} : Exists(fs, annotPath(q)) /\ Exists(fs, srcPath(q))

\* C28: a step that takes a page p out of the annotated set is the last
\* step of Clear(p); no step of Thumbnail, Save, IsAnnotated, HasAnnotations
\* or Annotate, whatever it returns, takes any page out.
C28_OnlyClearUnmarks ==
    [][\A p \in annotated \ annotated' :
          pc = "C_unmark" /\ ret.op = "Clear" /\ page = p]_vars

\* C28 witness: Annotate(p) of an annotated page returned an error, and
\* another annotated page stayed annotated through it.
C28_Witness ==
    /\ After("Annotate") /\ ret.err # "nil"
    /\ entry.annotated = Pages /\ annotated = Pages
    /\ Cardinality(Pages) = 2

\* C29: the page count of the session New returned is the number of pages
\* of its private copy, also when another program replaced the user's file
\* while New was running.
C29_PageCountIsThatOfTheCopy ==
    (ret.op = "New" /\ pc = "idle") => pageCount = Len(fs[path].data)

\* C30: when New has returned an error, no staging directory is on disk.
C30_FailedNewLeavesNoStagingDir ==
    pc = "nosession" => ~Exists(fs, StagingDir)

\* The values the annotated set has had since the running Save began.
SetsDuringSave == {entry.annotated} \cup bg.seen

\* C23: once Save has invoked the merge, the page list it passes to the
\* merge and to the overlay is not empty and is, as a set, a value the
\* annotated set had at some instant since the Save began, whatever
\* Annotate and Clear did on the other goroutine meanwhile.
C23_SavePageListIsASnapshot ==
    (ret.op = "Save" /\ \E k \in 1..Len(calls) : calls[k].tool = "qpdf-merge") =>
        /\ savePages # <<>>
        /\ {savePages[k] : k \in 1..Len(savePages)} \in SetsDuringSave
        /\ \A k \in 1..Len(calls) :
              /\ calls[k].tool = "qpdf-merge" =>
                    calls[k].args = mergeArgs(savePages) \o <<"--", overlayPath>>
              /\ calls[k].tool = "qpdf-overlay" =>
                    calls[k].args[5] = pageRange(savePages)

\* A thumbnail generation is in flight.
Generating == ret.op = "Thumbnail" /\ pc # "idle"

\* C21: a between-pages check of the loader made after the cancellation
\* signal was set ends the loader, which from then on starts no thumbnail
\* generation; a generation in flight is not interrupted -- the signal is
\* not set and the session not closed until it has returned, and it does
\* return; and once the signal is set the loader terminates.
C21_LoaderStopsAtCancellation ==
    /\ [][(Loading /\ bg.pc = "for" /\ bg.done /\ bg'.pc # "for") =>
              bg'.pc = "returned"]_vars
    /\ [][(Loading /\ bg.pc = "returned") =>
              (bg'.pc = "returned" /\ ~Generating')]_vars
    /\ [][(Generating /\ Loading) =>
              (bg'.done = bg.done /\ ret'.op = "Thumbnail")]_vars
    /\ [](Generating /\ Loading => bg.sessMu = "loader" /\ ~bg.done /\ ~IsClosed)
    /\ (Generating /\ Loading) ~> (ret.op = "Thumbnail" /\ pc = "idle")
    /\ (Loading /\ bg.done) ~> (bg.pc = "returned")

\* C21 witness: the signal was set after the thumbnail of the first of two
\* pages was generated; the loader has returned at its next check and the
\* second page was never generated.
C21_Witness ==
    /\ Loading /\ bg.done /\ bg.pc = "returned"
    /\ bg.cnt = 2 /\ bg.page = 1 /\ bg.seen = {0}
    /\ IsClosed

\* C31: a Thumbnail(p) that returned a nil error returned the cache path of
\* p, and the complete rasterisation of page p of the private copy is in
\* the file at that path.
C31_ReturnedThumbnailExists ==
    (After("Thumbnail") /\ ret.err = "nil") =>
        /\ ret.val = thumbPath(page)
        /\ Exists(fs, ret.val)
        /\ fs[ret.val].data = <<Elem("png", fs[path].data[page + 1][1].id, "")>>

\* The one-based numbers of the pages of the session's document.
PageNumbers == 1..pageCount

\* C32: the page a tool is told to work on is written as the zero-based
\* index plus one and lies in 1..pageCount: the page of a rasterisation and
\* of an export to SVG is page + 1, and the k-th number of the overlay's
\* list is the k-th page Save collected, plus one.
C32_ToolsGetOneBasedPages ==
    \A k \in 1..Len(calls) :
        LET c == calls[k]
        IN  /\ c.tool = "pdftocairo" =>
                  \E n \in PageNumbers : n = page + 1 /\ c.args[2] = Itoa(n)
            /\ c.tool = "inkscape-export-svg" =>
                  \E n \in PageNumbers :
                      n = page + 1 /\ c.args[1] = "--pages=" \o Itoa(n)
            /\ c.tool = "qpdf-overlay" =>
                  LET to == ParsePageRange(c.args[5], pageCount)
                  IN  /\ Len(to) = Len(savePages)
                      /\ \A j \in 1..Len(to) :
                            to[j] \in PageNumbers /\ to[j] = savePages[j] + 1

\* C32 witness: the last page of a two-page document was rasterised as
\* page 2, after a Save had overlaid pages 1 and 2.
C32_Witness ==
    /\ After("Thumbnail") /\ ret.err = "nil"
    /\ pageCount = 2 /\ page = 1
    /\ calls # <<>> /\ LastCall.ok /\ LastCall.args[2] = "2"
    /\ annotated = {0, 1} /\ Exists(fs, finalPath)

RECURSIVE BodyBut(_)
\* The bytes of the elements of doc with those of the locked background
\* left out and everything else, the line ends included, in place.
BodyBut(doc) ==
    IF doc = <<>> THEN <<>>
    ELSE (IF srcBGPat(Head(doc)) THEN <<>> ELSE ElemText(Head(doc)))
         \o <<"\n">> \o BodyBut(Tail(doc))

\* C33: the stripped text is the text of the document without the bytes of
\* the image elements whose id is src-bg and with every other byte in place
\* -- images and paths of the user, a path named src-bg, the svg tags, the
\* white space; it holds the elements StripBG keeps; the text of a
\* document without such an element is unchanged.
C33_StripRemovesOnlyTheBackground ==
    (ret.op = "Save" /\ pc = "S_export" /\ frame.out # <<>>) =>
        LET doc == fs[annotPath(i)].data
        IN  /\ frame.out = SvgOpen \o BodyBut(doc) \o SvgClose
            /\ ReplaceAll(frame.out) = frame.out
            /\ ReplaceAll(Marshal(StripBG(doc))) = Marshal(StripBG(doc))
            /\ (\A k \in 1..Len(doc) : ~srcBGPat(doc[k])) => frame.out = Marshal(doc)

\* C33 witness: a document with the locked background between an image and
\* a path of the user has been stripped.
C33_Witness ==
    /\ pc = "S_export"
    /\ fs[annotPath(i)].data =
          <<Elem("image", "u1", "h"), Elem("image", "src-bg", "h"), Elem("path", "u1", "h")>>
    /\ frame.out # <<>>
    /\ frame.out # Marshal(fs[annotPath(i)].data)

\* Close is running on, or has returned from, a session that was closed
\* when it was called: it went for the empty path.
SecondClose ==
    /\ ret.op = "Close"
    /\ IF pc = "idle" THEN calls # <<>> /\ LastCall.args = <<"">> ELSE IsClosed

\* C40: a Close of a closed session attempts no file removal, none of its
\* steps changes a file or a directory, it does not panic, and it leaves
\* the session closed.
C40_SecondCloseIsNoOp ==
    /\ [](SecondClose =>
            /\ \A k \in 1..Len(calls) : calls[k].tool = "remove-dir" /\ ~calls[k].ok
            /\ pc # "panic"
            /\ IsClosed
            /\ path = "" /\ tmpDir = "" /\ annotated = {})
    /\ [][(SecondClose /\ pc # "idle" /\ <<pc, calls, frame>>' # <<pc, calls, frame>>) =>
              fs' = fs]_vars

\* C40 witness: the second Close has returned; the user's input and the
\* file Save wrote are still there.
C40_Witness ==
    /\ SecondClose /\ pc = "idle"
    /\ IsClosed
    /\ Exists(fs, InputPath) /\ Exists(fs, DestPath)

ShownPages == [k \in 1..Len(bg.shown) |-> bg.shown[k].page]

\* C37: what the loader has handed to the user interface is, page by page
\* in ascending order from page 0, the cache path of the page or the
\* placeholder; a loader that returned without being cancelled has handed
\* over every page, each once; the image is the path exactly when
\* Thumbnail returned without error; and the loader returns.
C37_LoaderVisitsEveryPageOnce ==
    /\ [](Loading =>
            /\ ShownPages = [k \in 1..Len(bg.shown) |-> k - 1]
            /\ Len(bg.shown) = bg.page
            /\ (bg.pc = "returned" /\ ~bg.done) => Len(bg.shown) = bg.cnt
            /\ \A k \in 1..Len(bg.shown) :
                  bg.shown[k].img \in {noThumbPix, Join(StagingDir, "thumb-" \o Itoa(k - 1) \o ".png")})
    /\ [][(Loading /\ bg.pc = "show" /\ bg'.pc # "show") =>
              /\ bg'.pc = "for"
              /\ Len(bg'.shown) = Len(bg.shown) + 1
              /\ bg'.shown[Len(bg'.shown)].img =
                    IF bg.val = "err" THEN noThumbPix ELSE bg.val]_vars
    /\ [][(Loading /\ bg.pc = "call" /\ bg'.pc # "call") =>
              /\ ret.op = "Thumbnail" /\ ret.page = bg.page
              /\ bg'.pc = "show"
              /\ bg'.val = IF ret.err = "nil" THEN ret.val ELSE "err"]_vars
    /\ Loading ~> (bg.pc = "returned")

\* C37 witness: the loader returned, not cancelled, after the thumbnail of
\* the first of two pages failed and the second was made.
C37_Witness ==
    /\ Loading /\ bg.pc = "returned" /\ ~bg.done
    /\ bg.cnt = 2
    /\ bg.shown = <<[page |-> 0, img |-> noThumbPix],
                    [page |-> 1, img |-> Join(StagingDir, "thumb-1.png")]>>

\* C35: while the loader started for the first document is inside
\* Thumbnail, the session is that of the first document, the page is below
\* the session's page count, and the call does not stop the program.
C35_LoaderStaysWithItsDocument ==
    (Loading /\ ret.op = "Thumbnail" /\ pc # "idle") =>
        /\ bg.gen = 1
        /\ ret.page < pageCount
        /\ pc # "panic"

\* Who calls each operation of the session in the front end.
Caller(op) ==
    CASE op = "Thumbnail" -> "loader"
      [] op = "Annotate" -> "annotate"
      [] OTHER -> "ui"

\* The holder of sessMu is inside its critical section.
InCriticalSection ==
    CASE bg.sessMu = "loader" -> bg.pc \in {"check", "call"}
      [] bg.sessMu = "annotate" -> bg.ann.pc = "running"
      [] bg.sessMu = "ui" -> bg.ui \in {"isAnnotated", "clear", "save", "cancel",
                                         "close", "new", "inNew"}
      [] OTHER -> FALSE

\* C34: while an operation of the session is in progress, sessMu is held,
\* and by the one who called it; sessMu is held only inside a critical
\* section; an operation begins only in a state where no other is in
\* progress; and unless the program was stopped by a panic, sessMu is
\* released again.
C34_SessionCallsHoldSessMu ==
    /\ [](Loading =>
            /\ pc # "idle" => bg.sessMu = Caller(ret.op)
            /\ bg.sessMu # Free => InCriticalSection)
    /\ [][(Loading /\ pc' # "idle" /\ ret'.op # ret.op) =>
              (pc = "idle" /\ bg'.sessMu = Caller(ret'.op))]_vars
    /\ (Loading /\ bg.sessMu # Free) ~>
          ((Loading /\ bg.sessMu = Free) \/ pc = "panic")

\* C34 witness: the loader waits for sessMu while Annotate, called by the
\* goroutine of annotate, is at the editor.
C34_Witness ==
    /\ Loading /\ bg.pc = "lock"
    /\ ret.op = "Annotate" /\ pc = "A_edit"
    /\ bg.sessMu = "annotate"

\* C38: from the request until its callback the window is not sensitive;
\* Annotate is called by the goroutine of the request, never by the thread
\* of the user interface; the callback runs in a main loop of that thread
\* with what Annotate returned, makes the window sensitive and shows the
\* pages view; a label is marked only by a callback whose Annotate returned
\* changed = true and no error, and such a callback marks the label of its
\* page; and once Annotate has returned the callback runs.
C38_AnnotateDisablesTheWindow ==
    /\ [](Loading =>
            /\ bg.ann.pc # "none" => ~bg.sens
            /\ (ret.op = "Annotate" /\ pc # "idle") =>
                  (bg.ann.pc = "running" /\ bg.sessMu = "annotate" /\ ~bg.sens))
    /\ [][(Loading /\ bg.ann.pc = "running" /\ bg'.ann.pc # "running") =>
              /\ bg'.ann.pc = "posted"
              /\ bg'.ann.changed = (ret.val = "true")
              /\ bg'.ann.err = ret.err]_vars
    /\ [][(Loading /\ bg.ann.pc = "posted" /\ bg'.ann.pc # "posted") =>
              /\ MainLoop
              /\ bg'.ann.pc = "none"
              /\ bg'.sens /\ bg'.view = "pages"
              /\ bg'.labels = IF bg.ann.changed /\ bg.ann.err = "nil"
                              THEN bg.labels \cup {bg.ann.page}
                              ELSE bg.labels]_vars
    /\ [][(Loading /\ ~(bg'.labels \subseteq bg.labels)) =>
              (bg.ann.pc = "posted" /\ bg.ann.changed /\ bg.ann.err = "nil")]_vars
    /\ (Loading /\ bg.ann.pc = "posted") ~> (Loading /\ bg.ann.pc = "none")

\* C38 witness: the callback of an Annotate that returned changed = true
\* has run: the window is sensitive, the pages view is shown and the label
\* of the page is marked.
C38_Witness ==
    /\ Loading /\ bg.ann.pc = "none"
    /\ ret.op = "Annotate" /\ ret.val = "true" /\ ret.err = "nil"
    /\ bg.sens /\ bg.view = "pages" /\ bg.labels = {0}

\* annotSinceLastSave goes from true to false only after a Save that
\* returned no error or in a closeFile the user confirmed.
FlagClearedBySaveOrConfirmedClose ==
    [][(Loading /\ bg.dirty /\ ~bg'.dirty) =>
          \/ bg.ui = "save" /\ ret.op = "Save" /\ ret.err = "nil"
          \/ bg.ui = "lock" /\ bg.asked]_vars

\* C39: closeFile goes on to close the session of a document for which an
\* Annotate returned changed = true since it was opened or last saved only
\* after the user confirmed; and annotSinceLastSave is cleared only by a
\* successful Save or a confirmed close.
C39_UnsavedChangesAreConfirmed ==
    /\ [][(Loading /\ bg.ui = "lock" /\ bg'.ui = "cancel" /\ bg.unsaved) =>
              bg.asked]_vars
    /\ FlagClearedBySaveOrConfirmedClose

=============================================================================
